---- MODULE Spec2Model ----
(***************************************************************************)
(* A model of the toad router (src/src/router.ts, src/src/middleware.ts):  *)
(* the builder (use, verb methods, route), the dispatch entry point        *)
(* (handle) and the middleware chain it runs, step by step, on the         *)
(* JavaScript call stack and across awaits.                                *)
(*                                                                         *)
(* Strings are sequences of one-character strings, so that concatenation,  *)
(* normalisation and matching are computed character by character.         *)
(***************************************************************************)
EXTENDS Integers, Sequences, FiniteSets, TLC

VARIABLES
    heap,         \* the working middleware arrays of the routers; an array is named by its index
    nodes,        \* the Router instances: [basePath, stack, stackRouter, router]
    routers,      \* the route tables (Memoirist instances) created so far
    stackRouters, \* the base-path tables (Memoirist instances) created so far
    uses,         \* uses[n]: how many use() calls node n has received
    forks,        \* forks[n]: [parent, at, path]: the node whose route(path) made n, and uses[parent] then
    calls,        \* the handle calls the caller still holds, finished or in flight
    latest        \* latest[r]: per (method, normalized path), what the last verb call on table r stored

vars == <<heap, nodes, routers, stackRouters, uses, forks, calls, latest>>

----------------------------------------------------------------------------
(* Bounds of the model *)

\* use() calls in all, Router instances, handle calls held at a time
MaxUse == 3
MaxNodes == 3
MaxCalls == 2

----------------------------------------------------------------------------
(* Strings *)

RECURSIVE TakeUntil(_, _)
\* the longest prefix of s that holds no character c
TakeUntil(s, c) ==
    IF s = <<>> \/ Head(s) = c THEN <<>>
    ELSE <<Head(s)>> \o TakeUntil(Tail(s), c)

\* s without its first n characters
Drop(s, n) == IF n >= Len(s) THEN <<>> ELSE SubSeq(s, n + 1, Len(s))

RECURSIVE CollapseSlashes(_)
\* replaceAll(/\/+/g, "/")
CollapseSlashes(s) ==
    IF Len(s) < 2 THEN s
    ELSE IF s[1] = "/" /\ s[2] = "/" THEN CollapseSlashes(Tail(s))
    ELSE <<s[1]>> \o CollapseSlashes(Tail(s))

RECURSIVE StripTrailingSlashes(_)
\* replace(/\/*$/, "")
StripTrailingSlashes(s) ==
    IF s # <<>> /\ s[Len(s)] = "/" THEN StripTrailingSlashes(SubSeq(s, 1, Len(s) - 1))
    ELSE s

\* a mutant of normalizePath that keeps a trailing separator
normalizePathKeepTrailing(path) ==
    LET p == CollapseSlashes(<<"/">> \o path)
    IN  IF p = <<>> THEN <<"/">> ELSE p

normalizePath(path) ==
    LET p == StripTrailingSlashes(CollapseSlashes(<<"/">> \o path))
    IN  IF p = <<>> THEN <<"/">> ELSE p

RECURSIVE AfterSlashes(_, _)
\* url.split("/").slice(n).join("/"): what follows the n-th "/" of url ("" if none)
AfterSlashes(url, n) ==
    IF n = 0 THEN url
    ELSE IF url = <<>> THEN <<>>
    ELSE IF Head(url) = "/" THEN AfterSlashes(Tail(url), n - 1)
    ELSE AfterSlashes(Tail(url), n)

\* the path handle looks up: scheme, host and query string dropped, then normalised
requestPath(url) == normalizePath(TakeUntil(AfterSlashes(url, 3), "?"))

----------------------------------------------------------------------------
(* The path matcher (Memoirist): register and find *)

EmptyMap == [k \in {} |-> <<>>]

NoMatch == [ok |-> FALSE, params |-> EmptyMap]

RECURSIVE MatchPattern(_, _)
\* the parameters pattern binds on path, or NoMatch
MatchPattern(pat, path) ==
    IF pat = <<>> THEN
        IF path = <<>> THEN [ok |-> TRUE, params |-> EmptyMap] ELSE NoMatch
    ELSE IF pat = <<"*">> THEN
        [ok |-> TRUE, params |-> (<<"*">> :> path)]
    ELSE IF Head(pat) = ":" THEN
        LET name == TakeUntil(Tail(pat), "/")
            val  == TakeUntil(path, "/")
            rest == MatchPattern(Drop(pat, 1 + Len(name)), Drop(path, Len(val)))
        IN  IF val = <<>> \/ ~rest.ok THEN NoMatch
            ELSE [ok |-> TRUE, params |-> (name :> val) @@ rest.params]
    ELSE IF path # <<>> /\ Head(path) = Head(pat) THEN
        MatchPattern(Tail(pat), Tail(path))
    ELSE NoMatch

\* how specific the character at position i of a pattern is: 0 a literal or the end,
\* 1 a parameter, 2 the trailing wildcard
Rank(pat, i) ==
    IF i > Len(pat) THEN 0
    ELSE IF pat[i] = ":" THEN 1
    ELSE IF pat[i] = "*" /\ i = Len(pat) THEN 2
    ELSE 0

RECURSIVE FirstDiff(_, _, _)
FirstDiff(p, q, i) ==
    IF i > Len(p) \/ i > Len(q) \/ p[i] # q[i] THEN i ELSE FirstDiff(p, q, i + 1)

\* pattern p is preferred to pattern q when both match
MoreSpecific(p, q) ==
    LET i == FirstDiff(p, q, 1) IN Rank(p, i) < Rank(q, i)

\* a mutant of register that keeps what a key already holds
RegisterKeepFirst(table, method, pattern, store) ==
    LET key == <<method, IF pattern = <<>> THEN <<"/">> ELSE pattern>>
    IN  [k \in DOMAIN table \cup {key} |-> IF k \in DOMAIN table THEN table[k] ELSE store]

\* register(method, pattern, payload)
Register(table, method, pattern, store) ==
    LET key == <<method, IF pattern = <<>> THEN <<"/">> ELSE pattern>>
    IN  [k \in DOMAIN table \cup {key} |-> IF k = key THEN store ELSE table[k]]

\* the keys of table that match (method, path)
Candidates(table, method, path) ==
    {k \in DOMAIN table : k[1] = method /\ MatchPattern(k[2], path).ok}

\* find(method, path): [found, store, params]
Find(table, method, path) ==
    LET cands == Candidates(table, method, path)
    IN  IF cands = {} THEN [found |-> FALSE]
        ELSE LET best == CHOOSE k \in cands :
                            \A o \in cands \ {k} : ~MoreSpecific(o[2], k[2])
             IN  [found |-> TRUE, store |-> table[best],
                  params |-> MatchPattern(best[2], path).params]

----------------------------------------------------------------------------
(* The builder *)

Nodes == 1..Len(nodes)

RECURSIVE SumTo(_, _)
SumTo(f, n) == IF n = 0 THEN 0 ELSE f[n] + SumTo(f, n - 1)

\* how many middleware functions have been passed to use so far
mdCount == SumTo(uses, Len(uses))

\* A stack as a route or a base-path registration holds it: the working array ref of
\* a router (ref > 0), or an array of its own, which nothing else can reach or change
\* (ref = 0, val its content)
Shared(ref) == [ref |-> ref, val |-> <<>>]
Private(val) == [ref |-> 0, val |-> val]

\* no stack: undefined
NoStack == [ref |-> 0 - 1, val |-> <<>>]

\* the content of a stack
Deref(s) == IF s.ref > 0 THEN heap[s.ref] ELSE s.val

\* the content of node n's working stack
StackOf(n) == heap[nodes[n].stack]

\* the k-th middleware function passed to use on node n
MdId(n, k) == n * 100 + k

\* the node whose use received middleware id
MdNode(id) == id \div 100

\* the rank of middleware id among those its node received
MdSeq(id) == id % 100

EmptyTable == [k \in {} |-> 0]

\* a mutant of the constructor that registers only the wildcard base path
RegisterBasePathWildcardOnly(table, basePath, stack) ==
    Register(table, "GET", basePath \o <<"/", "*">>, [stack |-> Shared(stack)])

\* a mutant of the constructor that registers a copy made then in place of the array
\* (for a child, whose array is yet to be made, a copy of the newest array)
RegisterBasePathSnapshot(table, basePath, stack) ==
    LET copy == Private(IF stack <= Len(heap) THEN heap[stack] ELSE heap[Len(heap)])
    IN  Register(Register(table, "GET", basePath \o <<"/", "*">>, [stack |-> copy]),
                 "GET", basePath, [stack |-> copy])

\* a mutant of the constructor that registers the base path alone
RegisterBasePathExactOnly(table, basePath, stack) ==
    Register(table, "GET", basePath, [stack |-> Shared(stack)])

\* the constructor's two base-path registrations, both holding the node's own array
RegisterBasePath(table, basePath, stack) ==
    Register(Register(table, "GET", basePath \o <<"/", "*">>, [stack |-> Shared(stack)]),
             "GET", basePath, [stack |-> Shared(stack)])

\* createRouter(): new Router("")
Init ==
    /\ heap = << <<>> >>
    /\ nodes = << [basePath |-> <<>>, stack |-> 1, stackRouter |-> 1, router |-> 1] >>
    /\ forks = << [parent |-> 0, at |-> 0, path |-> <<>>] >>
    /\ uses = << 0 >>
    /\ routers = << EmptyTable >>
    /\ stackRouters = << RegisterBasePath(EmptyTable, <<>>, 1) >>
    /\ calls = <<>>
    /\ latest = << EmptyTable >>

\* a mutant of use that puts the middleware in front
PushFront(stack, md) == <<md>> \o stack

\* Array.prototype.push
Push(stack, md) == Append(stack, md)

\* use(md) on node n, md a new middleware function of the given kind
Use(n, kind) ==
    /\ mdCount < MaxUse
    /\ heap' = [heap EXCEPT ![nodes[n].stack] =
                   Push(@, [id |-> MdId(n, uses[n] + 1), kind |-> kind])]
    /\ uses' = [uses EXCEPT ![n] = @ + 1]
    /\ UNCHANGED <<nodes, forks, routers, stackRouters, calls, latest>>

\* a mutant of the route's copy that captures the working array itself
RouteStackAlias(a) == Shared(a)

\* stack: [...this.#stack] in #addRoute: a new array with the same elements
RouteStack(a) == Private(heap[a])

\* #addRoute(method, basePath + path, fn) on node n, fn the handler of the given kind
\* written for node n
AddRoute(n, method, path, hkind) ==
    LET full == nodes[n].basePath \o path
        store == [matchingRoute |-> full,
                  given |-> path,
                  stack |-> RouteStack(nodes[n].stack),
                  handler |-> [id |-> n, kind |-> hkind],
                  node |-> n,
                  at |-> uses[n]]
    IN  /\ routers' = [routers EXCEPT ![nodes[n].router] =
                          Register(@, method, normalizePath(full), store)]
        /\ latest' = [latest EXCEPT ![nodes[n].router] =
                         (<<method, normalizePath(full)>> :> store) @@ @]
        /\ UNCHANGED <<heap, nodes, forks, stackRouters, uses, calls>>

\* a mutant of the child's copy that hands the child the parent's array
ChildStackAlias(h, a) == [heap |-> h, ref |-> a]

\* a mutant of the child's copy that starts the child with an empty stack
ChildStackEmpty(h, a) == [heap |-> Append(h, <<>>), ref |-> Len(h) + 1]

\* [...this.#stack] in route: a new array with the same elements
ChildStack(h, a) == [heap |-> Append(h, h[a]), ref |-> Len(h) + 1]

\* a mutant of route that gives the child a route table of its own
ChildRouterFresh(n) == Len(routers) + 1

\* this.#router, handed to the child
ChildRouter(n) == nodes[n].router

\* a mutant of route that mounts the child at the path alone
ChildBasePathOwn(n, path) == path

\* `${this.#basePath}${path}`
ChildBasePath(n, path) == nodes[n].basePath \o path

\* route(path, fn) on node n: the child Router that fn receives
Route(n, path) ==
    LET bp == ChildBasePath(n, path)
        cp == ChildStack(heap, nodes[n].stack)
        rt == ChildRouter(n)
        sr == nodes[n].stackRouter
    IN  /\ Len(nodes) < MaxNodes
        /\ heap' = cp.heap
        /\ nodes' = Append(nodes, [basePath |-> bp, stack |-> cp.ref,
                                   stackRouter |-> sr, router |-> rt])
        /\ forks' = Append(forks, [parent |-> n, at |-> uses[n], path |-> path])
        /\ uses' = Append(uses, 0)
        /\ routers' = IF rt > Len(routers) THEN Append(routers, EmptyTable) ELSE routers
        /\ stackRouters' = [stackRouters EXCEPT ![sr] = RegisterBasePath(@, bp, cp.ref)]
        /\ latest' = IF rt > Len(latest) THEN Append(latest, EmptyTable) ELSE latest
        /\ UNCHANGED calls

----------------------------------------------------------------------------
(* Values: locals, responses, errors, and what a call returns *)

EmptyLocals == [k \in {} |-> 0]

\* matchedRoute: null
Null == <<"null">>

NoValue == [kind |-> "none", status |-> 0, body |-> EmptyLocals, msg |-> "", by |-> 0]

\* a Response: its status, its JSON body (locals, or a message), and the function that made it
Response(status, body, msg, by) ==
    [kind |-> "resp", status |-> status, body |-> body, msg |-> msg, by |-> by]

\* an Error thrown by function by
Error(msg, by) == [kind |-> "error", status |-> 0, body |-> EmptyLocals, msg |-> msg, by |-> by]

\* What a function call yields to its caller: nothing yet, a value, a thrown error,
\* or the promise of activation p
Pending == [t |-> "none", v |-> NoValue, p |-> 0]
Returned(v) == [t |-> "val", v |-> v, p |-> 0]
Thrown(v) == [t |-> "err", v |-> v, p |-> 0]
PromiseOf(a) == [t |-> "prom", v |-> NoValue, p |-> a]

\* a mutant of the fallback response that keeps the default status
NotFoundDefaultStatus == Response(200, EmptyLocals, "Not found", 0)

\* Response.json({ message: "Not found" }, { status: 404 })
NotFound == Response(404, EmptyLocals, "Not found", 0)

\* the terminal step of a call with no matched route
NotFoundFn == [id |-> 0, kind |-> "notFound"]

----------------------------------------------------------------------------
(* Middleware and handlers, by kind *)

\* (ctx, next) => { ...; const r = next(v); ...; return r }
SyncKinds == {"pass", "set", "add"}
\* async (ctx, next) => { ...; const r = await next(v); ...; return r }
AwaitKinds == {"await", "catch"}
\* createMiddleware(before), createMiddleware(before, after); by what before does:
\*   cm, cmAfter: returns { [id]: id }     cmSet: returns { 0: id }
\*   cmVoid: returns nothing               cmThrow, cmThrowAfter: throws
CreatedKinds == {"cm", "cmAfter", "cmSet", "cmVoid", "cmThrow", "cmThrowAfter"}
\* those made with an after callback
AfterKinds == {"cmAfter", "cmThrowAfter"}
\* those whose before throws
BeforeThrowKinds == {"cmThrow", "cmThrowAfter"}
\* (ctx, next) => { next(ctx.locals); return new Response(..) }
DetachKinds == {"detach"}
\* (ctx, next) => { try { return next(ctx.locals) } catch (e) { return ... } }
TryKinds == {"syncCatch"}
\* (ctx, next) => { next(ctx.locals); return next(ctx.locals) }
TwiceKinds == {"twice"}

\* a mutant of the error handling in which next is not awaited inside the try
CatchesThrowOnly(md, how) == md.kind \in {"catch", "syncCatch"} /\ how = "throw"

\* whether the middleware's try/catch around next catches an error that reaches it as
\* a throw of next or as the rejection of the promise next returned: try { return
\* await next(..) } catches both, try { return next(..) } only the throw
Catches(md, how) == md.kind = "catch" \/ (md.kind = "syncCatch" /\ how = "throw")

\* what the before function of a createMiddleware middleware returns
BeforeReturn(md) ==
    CASE md.kind \in {"cm", "cmAfter"} -> (md.id :> md.id)
      [] md.kind = "cmSet" -> (0 :> md.id)
      [] OTHER -> EmptyLocals

\* a mutant of the merge in which the locals received win over what before returned
NextLocalsReceivedWin(md, locals) ==
    CASE md.kind \in {"pass", "await", "catch", "syncCatch", "detach", "twice"} -> locals
      [] md.kind = "set" -> (0 :> md.id)
      [] md.kind = "add" -> (md.id :> md.id) @@ locals
      [] md.kind \in CreatedKinds -> locals @@ BeforeReturn(md)

\* the locals a middleware passes to next, by kind:
\*   pass, await, catch, syncCatch, detach, twice: next(ctx.locals)
\*   set:                next({ 0: id })
\*   add:                next({ ...ctx.locals, [id]: id })
\*   createMiddleware:   { ...ctx.locals, ...o } with o what before returned
NextLocals(md, locals) ==
    CASE md.kind \in {"pass", "await", "catch", "syncCatch", "detach", "twice"} -> locals
      [] md.kind = "set" -> (0 :> md.id)
      [] md.kind = "add" -> (md.id :> md.id) @@ locals
      [] md.kind \in CreatedKinds -> BeforeReturn(md) @@ locals

----------------------------------------------------------------------------
(* handle: the chain engine *)

\* a function invocation: the stack position it runs at (0: the terminal step), the
\* function, where it stands, the context it was given, the locals it passed to next,
\* the invocation its last next call started, what it awaits, what it returned to its
\* caller, and how its own promise settled
NewAct(pos, fn, ctx) ==
    [pos |-> pos, fn |-> fn, pc |-> "start", ctx |-> ctx, out |-> EmptyLocals,
     child |-> 0, wait |-> Pending, ret |-> Pending, settled |-> Pending]

Event(e, act, ctx, v) == [e |-> e, pos |-> act.pos, id |-> act.fn.id, ctx |-> ctx, v |-> v]

\* a mutant of next that hands the middleware the initial context as it is
MdCtxStale(ctx, out) == ctx

\* a mutant of next in which its argument also replaces the parameters
MdCtxOutForParameters(ctx, out) == [ctx EXCEPT !.locals = out, !.parameters = out]

\* { ...ctx, locals: out }
MdCtx(ctx, out) == [ctx EXCEPT !.locals = out]

\* a mutant of the terminal context that keeps the base-path parameters
HandlerCtxBaseParams(c, out) ==
    [request |-> c.ctx.request,
     matchedRoute |-> c.handler.store.matchingRoute, locals |-> out,
     parameters |-> c.ctx.parameters]

\* { ...ctx, matchedRoute, locals: out, parameters: handler.params }
HandlerCtx(c, out) ==
    [request |-> c.ctx.request,
     matchedRoute |-> c.handler.store.matchingRoute, locals |-> out,
     parameters |-> c.handler.params]

\* a mutant of next that takes the middleware from the end of the stack
nextFromEnd(c, out) ==
    LET stack == Deref(c.stack)
    IN  IF c.i >= Len(stack) THEN
            IF ~c.handler.found
            THEN [c EXCEPT !.acts = Append(@, NewAct(0, NotFoundFn, MdCtx(c.ctx, out)))]
            ELSE [c EXCEPT !.acts = Append(@, NewAct(0, c.handler.store.handler, HandlerCtx(c, out)))]
        ELSE [c EXCEPT !.i = @ + 1,
                       !.acts = Append(@, NewAct(Len(stack) - c.i, stack[Len(stack) - c.i],
                                                 MdCtx(c.ctx, out)))]

\* next(out) of call c: const md = stack[i++]; return md({ ...ctx, locals: out }, next),
\* or the terminal step once the cursor is past the end. The call with the invocation
\* this starts
next(c, out) ==
    LET stack == Deref(c.stack)
    IN  IF c.i >= Len(stack) THEN
            IF ~c.handler.found
            THEN [c EXCEPT !.acts = Append(@, NewAct(0, NotFoundFn, MdCtx(c.ctx, out)))]
            ELSE [c EXCEPT !.acts = Append(@, NewAct(0, c.handler.store.handler, HandlerCtx(c, out)))]
        ELSE [c EXCEPT !.i = @ + 1,
                       !.acts = Append(@, NewAct(c.i + 1, stack[c.i + 1],
                                                 MdCtx(c.ctx, out)))]

\* a mutant that runs the base-path stack even when a route matched
EffectiveStackBaseFirst(handler, stackHandler) ==
    IF stackHandler.found THEN stackHandler.store.stack
    ELSE IF handler.found THEN handler.store.stack
    ELSE NoStack

\* a mutant of handle that takes an empty stack when neither lookup has one
EffectiveStackOrEmpty(handler, stackHandler) ==
    IF handler.found THEN handler.store.stack
    ELSE IF stackHandler.found THEN stackHandler.store.stack
    ELSE Private(<<>>)

\* handler?.store.stack ?? stackHandler?.store.stack
EffectiveStack(handler, stackHandler) ==
    IF handler.found THEN handler.store.stack
    ELSE IF stackHandler.found THEN stackHandler.store.stack
    ELSE NoStack

\* The JavaScript machine while it runs: the calls, and the call stack js of the
\* running invocations <<call, invocation>>, innermost last. It runs until the call
\* stack is empty before anything else happens.
TopCall(m) == m.js[Len(m.js)][1]
TopAct(m) == m.js[Len(m.js)][2]
Pop(m) == SubSeq(m.js, 1, Len(m.js) - 1)

Log(c, ev) == [c EXCEPT !.log = Append(@, ev)]

\* invocation a of call c returns h to its caller
ReturnFrom(c, a, h) == [c EXCEPT !.acts[a].ret = h, !.acts[a].pc = "done"]

\* invocation a of call c calls next(out)
CallNext(c, a, out) ==
    LET c1 == next(c, out)
    IN  [c1 EXCEPT !.acts[a].pc = "back", !.acts[a].out = out, !.acts[a].child = Len(c1.acts)]

\* A middleware starts: everything it does up to its next call, its return or its
\* first await
MdEnter(m) ==
    LET ci == TopCall(m)
        a == TopAct(m)
        act == m.calls[ci].acts[a]
        md == act.fn
        c == Log(m.calls[ci], Event("pre", act, act.ctx, NoValue))
    IN  CASE md.kind = "halt" ->
               [calls |-> [m.calls EXCEPT ![ci] =
                    ReturnFrom(c, a, Returned(Response(403, EmptyLocals, "halted", md.id)))],
                js |-> Pop(m)]
          [] md.kind = "throw" ->
               [calls |-> [m.calls EXCEPT ![ci] =
                    ReturnFrom(c, a, Thrown(Error("Boom", md.id)))],
                js |-> Pop(m)]
          [] md.kind = "reject" ->
               \* an async function that throws: its promise is rejected
               [calls |-> [m.calls EXCEPT ![ci] =
                    [c EXCEPT !.acts[a].pc = "done", !.acts[a].ret = PromiseOf(a),
                              !.acts[a].settled = Thrown(Error("Boom", md.id))]],
                js |-> Pop(m)]
          [] md.kind \in SyncKinds \cup AwaitKinds \cup TryKinds \cup DetachKinds \cup TwiceKinds ->
               [calls |-> [m.calls EXCEPT ![ci] =
                    CallNext(c, a, NextLocals(md, act.ctx.locals))],
                js |-> Append(m.js, <<ci, Len(c.acts) + 1>>)]
          [] md.kind \in CreatedKinds ->
               \* const o = await before(ctx)
               [calls |-> [m.calls EXCEPT ![ci] =
                    [c EXCEPT !.acts[a].pc = "before", !.acts[a].ret = PromiseOf(a)]],
                js |-> Pop(m)]

\* The terminal step starts: the 404 of next itself, or the route's handler up to its
\* return or its first await
Terminal(m) ==
    LET ci == TopCall(m)
        a == TopAct(m)
        act == m.calls[ci].acts[a]
        h == act.fn
        c == Log(m.calls[ci], Event("term", act, act.ctx, NoValue))
    IN  [calls |-> [m.calls EXCEPT ![ci] =
            CASE h.kind = "notFound" -> ReturnFrom(c, a, Returned(NotFound))
              [] h.kind = "ok" ->
                   ReturnFrom(c, a, Returned(Response(200, act.ctx.locals, "", h.id)))
              [] h.kind = "throw" -> ReturnFrom(c, a, Thrown(Error("Boom", h.id)))
              [] h.kind \in {"async", "reject"} ->
                   [c EXCEPT !.acts[a].pc = "wait", !.acts[a].ret = PromiseOf(a)]],
         js |-> Pop(m)]

\* a mutant of next that drops what the middleware returned (a missing return)
NextResultDropped(c, child) == Returned(NoValue)

\* return md({ ...ctx, locals: out }, next), return handler.store.handler(...): what a
\* next call hands back to the middleware that made it
NextResult(c, child) == c.acts[child].ret

\* the response of an error-handling middleware's handler
Caught(md, err) == Response(500, EmptyLocals, "caught", md.id)

\* A middleware gets back what its next call returned: it goes on to its return or to
\* its await of that result
MdBack(m) ==
    LET ci == TopCall(m)
        a == TopAct(m)
        c == m.calls[ci]
        act == c.acts[a]
        md == act.fn
        h == NextResult(c, act.child)
    IN  [calls |-> [m.calls EXCEPT ![ci] =
            IF md.kind \in SyncKinds THEN
                IF h.t = "err" THEN ReturnFrom(c, a, h)
                ELSE ReturnFrom(Log(c, Event("post", act, act.ctx, h.v)), a, h)
            ELSE IF md.kind \in TwiceKinds THEN
                \* what the last next call returned (or threw) is returned
                ReturnFrom(c, a, h)
            ELSE IF md.kind \in DetachKinds THEN
                \* what next returned is dropped
                IF h.t = "err" THEN ReturnFrom(c, a, h)
                ELSE ReturnFrom(c, a, Returned(Response(202, EmptyLocals, "detached", md.id)))
            ELSE IF md.kind \in TryKinds THEN
                IF h.t = "err" /\ Catches(md, "throw")
                THEN ReturnFrom(Log(c, Event("catch", act, act.ctx, h.v)), a,
                                Returned(Caught(md, h.v)))
                ELSE ReturnFrom(c, a, h)
            ELSE IF h.t = "err" THEN
                \* next threw inside the async function
                IF Catches(md, "throw")
                THEN [Log(c, Event("catch", act, act.ctx, h.v))
                        EXCEPT !.acts[a].pc = "done", !.acts[a].ret = PromiseOf(a),
                               !.acts[a].settled = Returned(Caught(md, h.v))]
                ELSE [c EXCEPT !.acts[a].pc = "done", !.acts[a].ret = PromiseOf(a),
                               !.acts[a].settled = Thrown(h.v)]
            ELSE [c EXCEPT !.acts[a].pc = "await", !.acts[a].wait = h,
                           !.acts[a].ret = PromiseOf(a)]],
         js |-> Pop(m)]

\* A middleware that calls next twice gets back what its first next call returned and
\* calls next again
MdAgain(m) ==
    LET ci == TopCall(m)
        a == TopAct(m)
        c == m.calls[ci]
        act == c.acts[a]
    IN  [calls |-> [m.calls EXCEPT ![ci] =
                       [CallNext(c, a, NextLocals(act.fn, act.ctx.locals))
                          EXCEPT !.acts[a].pc = "again"]],
         js |-> Append(m.js, <<ci, Len(c.acts) + 1>>)]

\* the innermost running invocation goes on
Step(m) ==
    LET c == m.calls[TopCall(m)]
        act == c.acts[TopAct(m)]
    IN  IF act.pc = "back" /\ act.fn.kind \in TwiceKinds /\ NextResult(c, act.child).t # "err"
        THEN MdAgain(m)
        ELSE IF act.pc \in {"back", "again"} THEN MdBack(m)
        ELSE IF act.pos > 0 THEN MdEnter(m)
        ELSE Terminal(m)

\* run to completion: the calls once the call stack is empty (each step is computed
\* once, as the one element of a set)
RECURSIVE Run(_)
Run(m) ==
    IF m.js = <<>> THEN m.calls
    ELSE CHOOSE cs \in {Run(x) : x \in {Step(m)}} : TRUE

\* a mutant of the initial context that reports no matched route
InitialCtxNoRoute(request, handler, stackHandler) ==
    [request |-> request,
     matchedRoute |-> Null,
     locals |-> EmptyLocals,
     parameters |-> IF stackHandler.found THEN stackHandler.params ELSE EmptyMap]

\* const ctx = { request, matchedRoute: handler?.store.matchingRoute ?? null,
\*               locals: {}, parameters: stackHandler?.params ?? {} }
InitialCtx(request, handler, stackHandler) ==
    [request |-> request,
     matchedRoute |-> IF handler.found THEN handler.store.matchingRoute ELSE Null,
     locals |-> EmptyLocals,
     parameters |-> IF stackHandler.found THEN stackHandler.params ELSE EmptyMap]

\* a mutant of the first next call that passes on what the latest call before it
\* passed last
FirstOutCarried(cs) ==
    IF cs = <<>> \/ cs[Len(cs)].acts = <<>> THEN EmptyLocals
    ELSE cs[Len(cs)].acts[Len(cs[Len(cs)].acts)].ctx.locals

\* the argument of return next({}), whatever calls cs were made before
FirstOut(cs) == EmptyLocals

\* a mutant of the cursor that goes on from where the latest call before it stands
FirstCursorShared(cs) == IF cs = <<>> THEN 0 ELSE cs[Len(cs)].i

\* let i = 0, whatever calls cs were made before
FirstCursor(cs) == 0

\* a mutant of the route lookup that looks routes up as it looks base paths up
LookupMethodGet(method) == "GET"

\* this.#router.find(request.method, path)
LookupMethod(method) == method

\* the calls once handle(request), called on node n after the calls cs, has returned
\* to its caller; a call keeps how many use calls its node had received by then
Handled(cs, n, method, url) ==
    LET path == requestPath(url)
        handler == Find(routers[nodes[n].router], LookupMethod(method), path)
        stackHandler == Find(stackRouters[nodes[n].stackRouter], "GET", path)
        stack == EffectiveStack(handler, stackHandler)
        ctx == InitialCtx([method |-> method, url |-> url], handler, stackHandler)
        c0 == [node |-> n, at |-> uses[n], method |-> method, url |-> url, path |-> path,
               handler |-> handler, stackHandler |-> stackHandler, stack |-> stack,
               failed |-> (stack = NoStack), ctx |-> ctx, i |-> FirstCursor(cs),
               acts |-> <<>>, log |-> <<>>]
    IN  IF stack = NoStack THEN Append(cs, c0)
        ELSE Run([calls |-> Append(cs, next(c0, FirstOut(cs))),
                  js |-> << <<Len(cs) + 1, 1>> >>])

\* a mutant of next that takes the middleware off the array: stack.shift()
StackReadShift(h, stack) ==
    IF stack.ref > 0 /\ h[stack.ref] # <<>> THEN [h EXCEPT ![stack.ref] = Tail(@)] ELSE h

\* const md = stack[i++]: the arrays once handle has read the stack it runs
StackRead(h, stack) == h

\* handle(request) on node n, until it returns to its caller
Handle(n, method, url) ==
    /\ Len(calls) < MaxCalls
    /\ calls' = Handled(calls, n, method, url)
    /\ heap' = StackRead(heap, calls'[Len(calls')].stack)
    /\ UNCHANGED <<nodes, forks, routers, stackRouters, uses, latest>>

\* what awaiting h yields in call c: Pending while the promise is not settled
Awaited(c, h) == IF h.t = "prom" THEN c.acts[h.p].settled ELSE h

\* the calls once the await of the async handler that is invocation a of call ci is
\* over: it returns or throws
HandlerResumed(cs, ci, a) ==
    LET c == cs[ci]
        act == c.acts[a]
    IN  [cs EXCEPT ![ci] =
            [c EXCEPT !.acts[a].pc = "done",
                      !.acts[a].settled =
                          IF act.fn.kind = "async"
                          THEN Returned(Response(200, act.ctx.locals, "", act.fn.id))
                          ELSE Thrown(Error("Boom", act.fn.id))]]

\* An async handler's await is over: it returns or throws
ResumeHandler(ci, a) ==
    /\ calls[ci].acts[a].pc = "wait"
    /\ calls' = HandlerResumed(calls, ci, a)
    /\ UNCHANGED <<heap, nodes, forks, routers, stackRouters, uses, latest>>

\* the calls once createMiddleware, invocation a of call ci, has awaited before's
\* result: the locals are merged, next is called, and what it starts runs until the
\* call stack is empty
BeforeResumed(cs, ci, a) ==
    LET c == cs[ci]
        act == c.acts[a]
    IN  IF act.fn.kind \in BeforeThrowKinds
        THEN [cs EXCEPT ![ci] =
                 [c EXCEPT !.acts[a].pc = "done",
                           !.acts[a].settled = Thrown(Error("Boom", act.fn.id))]]
        ELSE Run([calls |-> [cs EXCEPT ![ci] =
                                CallNext(c, a, NextLocals(act.fn, act.ctx.locals))],
                  js |-> << <<ci, a>>, <<ci, Len(c.acts) + 1>> >>])

\* createMiddleware: before's result has been awaited
ResumeBefore(ci, a) ==
    /\ calls[ci].acts[a].pc = "before"
    /\ calls' = BeforeResumed(calls, ci, a)
    /\ UNCHANGED <<heap, nodes, forks, routers, stackRouters, uses, latest>>

\* a mutant of createMiddleware that hands after the context the wrapper received
AfterCtxReceived(act) == act.ctx

\* const newCtx = { ...ctx, locals: { ...ctx.locals, ...o } }: what after receives
AfterCtx(act) == [act.ctx EXCEPT !.locals = act.out]

\* a mutant of createMiddleware that calls after in a finally block
AfterRunsFinally(md, got) == md.kind \in AfterKinds

\* const resp = await next(newCtx.locals); if (after) await after(newCtx, resp):
\* whether after is called once the awaited result of next is got
AfterRuns(md, got) == md.kind \in AfterKinds /\ got.t = "val"

\* the calls once the result of next that invocation a of call ci awaits has settled:
\* its code after the await runs and its own promise settles
AwaitResumed(cs, ci, a) ==
    LET c == cs[ci]
        act == c.acts[a]
        md == act.fn
        got == Awaited(c, act.wait)
        newCtx == AfterCtx(act)
        ca == IF AfterRuns(md, got) THEN Log(c, Event("after", act, newCtx, got.v)) ELSE c
    IN  [cs EXCEPT ![ci] =
            IF got.t = "val" THEN
                [(IF md.kind = "await" THEN Log(ca, Event("post", act, act.ctx, got.v)) ELSE ca)
                   EXCEPT !.acts[a].pc = "done", !.acts[a].settled = got]
            ELSE IF Catches(md, "rejection")
            THEN [Log(ca, Event("catch", act, act.ctx, got.v))
                    EXCEPT !.acts[a].pc = "done",
                           !.acts[a].settled = Returned(Caught(md, got.v))]
            ELSE [ca EXCEPT !.acts[a].pc = "done", !.acts[a].settled = got]]

\* The result of next that an async middleware awaits has settled
ResumeAwait(ci, a) ==
    /\ calls[ci].acts[a].pc = "await"
    /\ Awaited(calls[ci], calls[ci].acts[a].wait).t # "none"
    /\ calls' = AwaitResumed(calls, ci, a)
    /\ UNCHANGED <<heap, nodes, forks, routers, stackRouters, uses, latest>>

\* a router that turns an error reaching handle into a 500 response
ReturnsInternalError(c) ==
    IF c.failed THEN Thrown(Error("No stack handler found", 0))
    ELSE IF c.acts[1].ret.t = "err" THEN Returned(Response(500, EmptyLocals, "error", 0))
    ELSE c.acts[1].ret

\* a mutant of handle declared async: what it returns is always a promise
ReturnsPromise(c) ==
    IF c.failed THEN Thrown(Error("No stack handler found", 0))
    ELSE PromiseOf(1)

\* what handle returned in call c
Returns(c) ==
    IF c.failed THEN Thrown(Error("No stack handler found", 0))
    ELSE c.acts[1].ret

\* the response or error call c ends with: Pending until it is known
Outcome(c) == Awaited(c, Returns(c))

\* call c is over: its result is known and nothing of it is left to run
Finished(c) ==
    /\ Outcome(c).t # "none"
    /\ \A a \in 1..Len(c.acts) : c.acts[a].pc = "done"

\* The caller is done with the calls made so far, all of them over
Forget ==
    /\ calls # <<>>
    /\ \A ci \in 1..Len(calls) : Finished(calls[ci])
    /\ calls' = <<>>
    /\ UNCHANGED <<heap, nodes, forks, routers, stackRouters, uses, latest>>

----------------------------------------------------------------------------
(* Inputs *)

\* "http://h/", "http://h/a", "http://h/a/a", "http://h/b" as Request.url gives them
UrlRoot == <<"s", ":", "/", "/", "h", "/">>
UrlA == UrlRoot \o <<"a">>
UrlAA == UrlA \o <<"/", "a">>
UrlB == UrlRoot \o <<"b">>

Calls == 1..Len(calls)
Acts(ci) == 1..Len(calls[ci].acts)

\* the caller holds no call
Idle == calls = <<>>

----------------------------------------------------------------------------
(* SpecChain: the chain of one router, with every kind of middleware, a route and
   requests that match it or not, one request after another *)

ChainKinds == {"pass", "set", "add", "halt", "await", "cm"}

NextChain ==
    \/ \E k \in ChainKinds : Idle /\ Use(1, k)
    \/ \E h \in {"ok", "async"} : Idle /\ AddRoute(1, "GET", <<"/">>, h)
    \/ \E u \in {UrlRoot, UrlA} : Idle /\ Handle(1, "GET", u)
    \/ \E ci \in Calls : \E a \in Acts(ci) : ResumeHandler(ci, a)
    \/ \E ci \in Calls : \E a \in Acts(ci) : ResumeBefore(ci, a)
    \/ \E ci \in Calls : \E a \in Acts(ci) : ResumeAwait(ci, a)
    \/ Forget

SpecChain == Init /\ [][NextChain]_vars

----------------------------------------------------------------------------
(* SpecRoutes: one router that takes merging middleware and routes at two paths in any
   order, and requests that match a route or none, one after another *)

RoutePaths == { <<"/">>, <<"/", "a">> }

NextRoutes ==
    \/ Idle /\ Use(1, "add")
    \/ \E p \in RoutePaths : Idle /\ AddRoute(1, "GET", p, "ok")
    \/ \E u \in {UrlRoot, UrlA, UrlB} : Idle /\ Handle(1, "GET", u)
    \/ Forget

SpecRoutes == Init /\ [][NextRoutes]_vars

----------------------------------------------------------------------------
(* Spec: a tree of routers. Any node mounts sub-routers, adds merging middleware and
   registers its route, in any order; requests are dispatched on any node, one after
   another *)

MountPaths == { <<"/", "a">> }
Urls == { UrlRoot, UrlA, UrlAA }

Next ==
    \/ \E n \in Nodes : Idle /\ Use(n, "add")
    \/ \E n \in Nodes : Idle /\ AddRoute(n, "GET", <<"/">>, "ok")
    \/ \E n \in Nodes : \E p \in MountPaths : Idle /\ Route(n, p)
    \/ \E n \in Nodes : \E u \in Urls : Idle /\ Handle(n, "GET", u)
    \/ Forget

Spec == Init /\ [][Next]_vars

----------------------------------------------------------------------------
(* SpecPaths: a root that takes its merging middleware first, then sub-routers mounted
   at /a and routes whose paths have parameters, a wildcard, a missing leading
   separator and repeated or trailing separators; requests with a query string and
   with repeated or trailing separators, one after another *)

\* "/", "/:x", "/*", "b//"
PatternPaths == { <<"/">>, <<"/", ":", "x">>, <<"/", "*">>, <<"b", "/", "/">> }

\* "http://h/?x", "http://h/a/", "http://h//b", "http://h/a/b", "http://h/a?x/b"
UrlQuery == UrlRoot \o <<"?", "x">>
UrlASlash == UrlA \o <<"/">>
UrlSlashB == UrlRoot \o <<"/", "b">>
UrlAB == UrlA \o <<"/", "b">>
UrlAQuery == UrlA \o <<"?", "x", "/", "b">>

PathUrls == { UrlRoot, UrlA, UrlB, UrlQuery, UrlASlash, UrlSlashB, UrlAB, UrlAQuery }

NextPaths ==
    \/ Idle /\ Len(nodes) = 1 /\ routers[1] = EmptyTable /\ Use(1, "add")
    \/ \E p \in MountPaths : Idle /\ Route(1, p)
    \/ \E n \in Nodes : \E p \in PatternPaths : Idle /\ AddRoute(n, "GET", p, "ok")
    \/ \E u \in PathUrls : Idle /\ Handle(1, "GET", u)
    \/ Forget

SpecPaths == Init /\ [][NextPaths]_vars

----------------------------------------------------------------------------
(* SpecConc: a router with a createMiddleware middleware, then one that awaits next or
   one that merges, and a handler, async or not; requests are handled while earlier
   ones are suspended *)

NextConc ==
    \/ Idle /\ StackOf(1) = <<>> /\ Use(1, "cm")
    \/ \E k \in {"await", "add"} : Idle /\ Len(StackOf(1)) = 1 /\ Use(1, k)
    \/ \E h \in {"ok", "async"} : Idle /\ AddRoute(1, "GET", <<"/">>, h)
    \/ \E u \in {UrlRoot, UrlA} : Handle(1, "GET", u)
    \/ \E ci \in Calls : \E a \in Acts(ci) : ResumeHandler(ci, a)
    \/ \E ci \in Calls : \E a \in Acts(ci) : ResumeBefore(ci, a)
    \/ \E ci \in Calls : \E a \in Acts(ci) : ResumeAwait(ci, a)
    \/ Forget

SpecConc == Init /\ [][NextConc]_vars

----------------------------------------------------------------------------
(* SpecErrors: one router with middleware that pass on, await, catch with or without
   awaiting, throw or reject, and a handler that answers, throws or rejects *)

ErrorKinds == {"pass", "await", "catch", "syncCatch", "throw", "reject"}

NextErrors ==
    \/ \E k \in ErrorKinds : Idle /\ Use(1, k)
    \/ \E h \in {"ok", "throw", "reject"} : Idle /\ AddRoute(1, "GET", <<"/">>, h)
    \/ Idle /\ Handle(1, "GET", UrlRoot)
    \/ \E ci \in Calls : \E a \in Acts(ci) : ResumeHandler(ci, a)
    \/ \E ci \in Calls : \E a \in Acts(ci) : ResumeAwait(ci, a)
    \/ Forget

SpecErrors == Init /\ [][NextErrors]_vars

\* new Router("/a"): a router built with a base path and no parent
InitBare ==
    /\ heap = << <<>> >>
    /\ nodes = << [basePath |-> <<"/", "a">>, stack |-> 1, stackRouter |-> 1, router |-> 1] >>
    /\ forks = << [parent |-> 0, at |-> 0, path |-> <<>>] >>
    /\ uses = << 0 >>
    /\ routers = << EmptyTable >>
    /\ stackRouters = << RegisterBasePath(EmptyTable, <<"/", "a">>, 1) >>
    /\ calls = <<>>
    /\ latest = << EmptyTable >>

BarePaths == { <<"/">>, <<"/", "b">> }
BareUrls == { UrlRoot, UrlA, UrlAB, UrlB }

\* A router with base path /a: middleware, routes under /a, and requests inside and
\* outside the base path.
NextBare ==
    \/ \E k \in {"add", "pass"} : Idle /\ Use(1, k)
    \/ \E p \in BarePaths : Idle /\ AddRoute(1, "GET", p, "ok")
    \/ \E u \in BareUrls : Idle /\ Handle(1, "GET", u)
    \/ Forget

SpecBare == InitBare /\ [][NextBare]_vars

\* get("/a", h1) and get("/a/", h2): two paths that normalize alike, each with a handler
\* of its own
Replacements == { <<<<"/", "a">>, "ok">>, <<<<"/", "a", "/">>, "throw">> }

\* Routes registered again and again, under paths that normalize alike, with other
\* handlers and other stacks, between requests.
NextReplace ==
    \/ Use(1, "add")
    \/ \E g \in Replacements : AddRoute(1, "GET", g[1], g[2])
    \/ AddRoute(1, "POST", <<"/", "a">>, "ok")
    \/ Handle(1, "GET", UrlA)
    \/ Forget

SpecReplace == Init /\ [][NextReplace]_vars

----------------------------------------------------------------------------
(* SpecParams: sub-routers mounted at paths with parameters, beside a sub-router
   mounted at a literal path and one below another, with middleware and routes of
   their own *)

\* "http://h/a/a/b"
UrlAAB == UrlAA \o <<"/", "b">>

RootMounts == { <<"/", ":", "x">>, <<"/", "a">> }
ChildMounts == { <<"/", ":", "y">> }
ParamRoutes == { <<"/", "b">>, <<"/", ":", "z">> }
ParamUrls == { UrlA, UrlAB, UrlAAB }

\* node n has no route and no sub-router yet: the callback given to route is still
\* at its use calls
Fresh(n) ==
    /\ \A k \in DOMAIN routers[nodes[n].router] : routers[nodes[n].router][k].node # n
    /\ \A m \in Nodes : forks[m].parent # n

NextParams ==
    \/ \E p \in RootMounts : Idle /\ Route(1, p)
    \/ \E n \in Nodes : \E p \in ChildMounts : Idle /\ forks[n].parent = 1 /\ Route(n, p)
    \/ \E n \in Nodes : Idle /\ n > 1 /\ Fresh(n) /\ Use(n, "pass")
    \/ \E n \in Nodes : \E p \in ParamRoutes : Idle /\ n > 1 /\ AddRoute(n, "GET", p, "ok")
    \/ \E u \in ParamUrls : Idle /\ Handle(1, "GET", u)
    \/ Forget

SpecParams == Init /\ [][NextParams]_vars

----------------------------------------------------------------------------
(* SpecCreated: one router whose middleware are made by createMiddleware, with before
   functions that return keys, return nothing or throw, with and without after, below
   a middleware that sets a key they may return too *)

CreatedUse == {"set", "cm", "cmAfter", "cmSet", "cmVoid", "cmThrow"}

NextCreated ==
    \/ \E k \in CreatedUse : Idle /\ Use(1, k)
    \/ \E h \in {"ok", "async"} : Idle /\ AddRoute(1, "GET", <<"/">>, h)
    \/ \E u \in {UrlRoot, UrlA} : Idle /\ Handle(1, "GET", u)
    \/ \E ci \in Calls : \E a \in Acts(ci) : ResumeHandler(ci, a)
    \/ \E ci \in Calls : \E a \in Acts(ci) : ResumeBefore(ci, a)
    \/ \E ci \in Calls : \E a \in Acts(ci) : ResumeAwait(ci, a)
    \/ Forget

SpecCreated == Init /\ [][NextCreated]_vars

----------------------------------------------------------------------------
(* SpecSync: one router with middleware that return what next returned, that await
   it, that return a response of their own without calling next, or that call next
   and return a response of their own, above sync and async handlers *)

SyncUse == {"pass", "halt", "await", "detach"}

NextSync ==
    \/ \E k \in SyncUse : Idle /\ Use(1, k)
    \/ \E h \in {"ok", "async"} : Idle /\ AddRoute(1, "GET", <<"/">>, h)
    \/ \E u \in {UrlRoot, UrlA} : Idle /\ Handle(1, "GET", u)
    \/ \E ci \in Calls : \E a \in Acts(ci) : ResumeHandler(ci, a)
    \/ \E ci \in Calls : \E a \in Acts(ci) : ResumeAwait(ci, a)
    \/ Forget

SpecSync == Init /\ [][NextSync]_vars

----------------------------------------------------------------------------
(* SpecMounts: sub-routers mounted at "/a", below one another, and at "/b/", a path
   that ends with a slash, with middleware of their own, and requests at and below
   their base paths *)

\* "http://h/b/a"
UrlBA == UrlB \o <<"/", "a">>

SlashMounts == { <<"/", "a">>, <<"/", "b", "/">> }
MountUrls == { UrlRoot, UrlA, UrlAA, UrlB, UrlBA }

NextMounts ==
    \/ \E n \in Nodes : Idle /\ Fresh(n) /\ Use(n, "add")
    \/ \E n \in Nodes : \E p \in SlashMounts : Idle /\ Route(n, p)
    \/ \E n \in Nodes : Idle /\ AddRoute(n, "GET", <<"/">>, "ok")
    \/ \E u \in MountUrls : Idle /\ Handle(1, "GET", u)
    \/ Forget

SpecMounts == Init /\ [][NextMounts]_vars

----------------------------------------------------------------------------
(* SpecTwice: one router with middleware that call next once, twice or not at all,
   or await it, above sync and async handlers *)

TwiceUse == {"pass", "twice", "halt", "await"}

NextTwice ==
    \/ \E k \in TwiceUse : Idle /\ Use(1, k)
    \/ \E h \in {"ok", "async"} : Idle /\ AddRoute(1, "GET", <<"/">>, h)
    \/ \E u \in {UrlRoot, UrlA} : Idle /\ Handle(1, "GET", u)
    \/ \E ci \in Calls : \E a \in Acts(ci) : ResumeHandler(ci, a)
    \/ \E ci \in Calls : \E a \in Acts(ci) : ResumeAwait(ci, a)
    \/ Forget

SpecTwice == Init /\ [][NextTwice]_vars

----------------------------------------------------------------------------
(* SpecMethods: a router and a sub-router with merging middleware and routes for GET
   and for POST at the same paths; GET, POST and DELETE requests *)

RouteMethods == {"GET", "POST"}
RequestMethods == {"GET", "POST", "DELETE"}

NextMethods ==
    \/ \E n \in Nodes : Idle /\ Use(n, "add")
    \/ Idle /\ Len(nodes) = 1 /\ Route(1, <<"/", "a">>)
    \/ \E n \in Nodes : \E m \in RouteMethods : Idle /\ AddRoute(n, m, <<"/">>, "ok")
    \/ \E m \in RequestMethods : \E u \in {UrlRoot, UrlA, UrlB} : Idle /\ Handle(1, m, u)
    \/ Forget

SpecMethods == Init /\ [][NextMethods]_vars

----------------------------------------------------------------------------
(* SpecLive: one router whose middleware return a response of their own, throw, or
   call next once and return or await its result, added before the route, whose
   handler answers, at once or after an await, or rejects; one request after another.
   The event loop runs every continuation that is ready: a handler's await ends, and
   what awaits a settled promise is resumed. *)

LiveUse == {"pass", "halt", "await", "cmAfter", "throw"}

NextLive ==
    \/ \E k \in LiveUse : Idle /\ Fresh(1) /\ Use(1, k)
    \/ \E h \in {"ok", "async", "reject"} : Idle /\ AddRoute(1, "GET", <<"/">>, h)
    \/ \E u \in {UrlRoot, UrlA} : Idle /\ Handle(1, "GET", u)
    \/ \E ci \in Calls : \E a \in Acts(ci) : ResumeHandler(ci, a)
    \/ \E ci \in Calls : \E a \in Acts(ci) : ResumeBefore(ci, a)
    \/ \E ci \in Calls : \E a \in Acts(ci) : ResumeAwait(ci, a)
    \/ Forget

SpecLive ==
    /\ Init /\ [][NextLive]_vars
    /\ WF_vars(\E ci \in Calls : \E a \in Acts(ci) : ResumeHandler(ci, a))
    /\ WF_vars(\E ci \in Calls : \E a \in Acts(ci) : ResumeBefore(ci, a))
    /\ WF_vars(\E ci \in Calls : \E a \in Acts(ci) : ResumeAwait(ci, a))

----------------------------------------------------------------------------
(* SpecLate: one router whose middleware are made by createMiddleware or merge a key;
   use is called between requests and while a request is suspended, not while the
   caller holds a request that is over *)

LateUse == {"cm", "add"}

\* a request is suspended
InFlight == \E ci \in Calls : ~Finished(calls[ci])

NextLate ==
    \/ \E k \in LateUse : (Idle \/ InFlight) /\ Use(1, k)
    \/ \E h \in {"ok", "async"} : Idle /\ AddRoute(1, "GET", <<"/">>, h)
    \/ \E u \in {UrlRoot, UrlA} : Idle /\ Handle(1, "GET", u)
    \/ \E ci \in Calls : \E a \in Acts(ci) : ResumeHandler(ci, a)
    \/ \E ci \in Calls : \E a \in Acts(ci) : ResumeBefore(ci, a)
    \/ \E ci \in Calls : \E a \in Acts(ci) : ResumeAwait(ci, a)
    \/ Forget

SpecLate == Init /\ [][NextLate]_vars

----------------------------------------------------------------------------
(* SpecAfter: one router whose middleware are made by createMiddleware with an after
   callback, with a before that returns or throws, or throw, reject or catch, above
   handlers that answer, throw or reject *)

AfterUse == {"cmAfter", "cmThrowAfter", "throw", "reject", "catch"}

NextAfter ==
    \/ \E k \in AfterUse : Idle /\ Fresh(1) /\ Use(1, k)
    \/ \E h \in {"ok", "throw", "reject"} : Idle /\ AddRoute(1, "GET", <<"/">>, h)
    \/ \E u \in {UrlRoot, UrlA} : Idle /\ Handle(1, "GET", u)
    \/ \E ci \in Calls : \E a \in Acts(ci) : ResumeHandler(ci, a)
    \/ \E ci \in Calls : \E a \in Acts(ci) : ResumeBefore(ci, a)
    \/ \E ci \in Calls : \E a \in Acts(ci) : ResumeAwait(ci, a)
    \/ Forget

SpecAfter == Init /\ [][NextAfter]_vars

----------------------------------------------------------------------------
(* What a call's log shows *)

\* the events of call c that are code before next, the terminal step, or code after next
Phases(c) == SelectSeq(c.log, LAMBDA ev : ev.e \in {"pre", "term", "post", "after"})

\* the same, keeping of the code after next only what ran with next's response in hand:
\* after an await of it, or at once when next returned a plain response
PhasesResolved(c) ==
    SelectSeq(c.log, LAMBDA ev : \/ ev.e \in {"pre", "term"}
                                 \/ ev.e \in {"post", "after"} /\ ev.v.kind = "resp")

Phase(ev) == CASE ev.e = "pre" -> 1 [] ev.e = "term" -> 2 [] OTHER -> 3

\* before code in stack order, then the terminal step, then after code in reverse order
Onion(L) ==
    \A i, j \in 1..Len(L) :
        i < j => /\ Phase(L[i]) <= Phase(L[j])
                 /\ (Phase(L[i]) = 1 /\ Phase(L[j]) = 1) => L[i].pos < L[j].pos
                 /\ (Phase(L[i]) = 3 /\ Phase(L[j]) = 3) => L[i].pos > L[j].pos

\* the activations of call c that are middleware, and the one that is the terminal step
MdActs(c) == {a \in 1..Len(c.acts) : c.acts[a].pos > 0}
TermActs(c) == {a \in 1..Len(c.acts) : c.acts[a].pos = 0}

\* every middleware call c has started calls next once
AllCallNext(c) == \A a \in MdActs(c) : c.acts[a].fn.kind # "halt"

\* every position of the stack ran its before code, once and in order, and the
\* terminal step ran once
RanThrough(c) ==
    LET pre == SelectSeq(c.log, LAMBDA ev : ev.e = "pre")
    IN  /\ Len(pre) = Len(Deref(c.stack))
        /\ \A k \in 1..Len(pre) : pre[k].pos = k /\ pre[k].id = Deref(c.stack)[k].id
        /\ Len(SelectSeq(c.log, LAMBDA ev : ev.e = "term")) = 1

\* C1 as stated: in a call in which every middleware calls next once, the code before
\* next runs in stack order, then the terminal step, then the code after each next call
\* returns, in reverse stack order.
C1_AsStated ==
    \A ci \in Calls :
        (~calls[ci].failed /\ AllCallNext(calls[ci])) =>
            /\ Onion(Phases(calls[ci]))
            /\ Finished(calls[ci]) => RanThrough(calls[ci])

\* C1, amended: in a call in which every middleware calls next once, the code before
\* next runs in stack order m1..mn, then the terminal step runs, and the code a
\* middleware runs once it holds the response of its next call (after awaiting it, or
\* at once when next returned a plain response) runs in reverse order mn..m1.
C1_OnionOrder ==
    \A ci \in Calls :
        (~calls[ci].failed /\ AllCallNext(calls[ci])) =>
            /\ Onion(PhasesResolved(calls[ci]))
            /\ Finished(calls[ci]) => RanThrough(calls[ci])

\* a finished call through three middleware, with code after next that ran with the
\* response at two positions at least, one of them after an await
C1_Witness ==
    \E ci \in Calls :
        LET c == calls[ci]
            post == SelectSeq(PhasesResolved(c), LAMBDA ev : Phase(ev) = 3)
        IN  /\ ~c.failed /\ Finished(c) /\ AllCallNext(c)
            /\ c.handler.found
            /\ Len(Deref(c.stack)) = 3
            /\ Len(post) >= 2
            /\ \E k \in 1..Len(post) : c.acts[post[k].pos].fn.kind = "await"
            /\ \E k \in 1..Len(post) : c.acts[post[k].pos].fn.kind \in SyncKinds

\* the activations that returned a response without calling next
Halted(c) == {a \in MdActs(c) : c.acts[a].fn.kind = "halt" /\ c.acts[a].pc = "done"}

\* what invocation a of call c yielded, once known
Yield(c, a) == Awaited(c, c.acts[a].ret)

\* C2: when the middleware at position k returns a response without calling next,
\* nothing at a position greater than k and no terminal step is ever invoked in that
\* call, and that response is what every enclosing middleware receives from its next
\* call and what handle ends with.
C2_HaltStopsChain ==
    \A ci \in Calls : \A a \in Halted(calls[ci]) :
        LET c == calls[ci]
            resp == c.acts[a].ret
        IN  /\ resp.t = "val" /\ resp.v.by = c.acts[a].fn.id
            /\ TermActs(c) = {}
            /\ \A b \in MdActs(c) : c.acts[b].pos <= c.acts[a].pos
            /\ c.i = c.acts[a].pos
            /\ \A b \in MdActs(c) :
                  (c.acts[b].child # 0 /\ c.acts[b].pc \in {"await", "done"}) =>
                      Awaited(c, NextResult(c, c.acts[b].child)) \in {resp, Pending}
            /\ \A b \in MdActs(c) : Yield(c, b) \in {resp, Pending}
            /\ Finished(c) => Outcome(c) = resp

\* a finished call halted at position 2 of a matched route's stack of 3, below an
\* awaiting middleware
C2_Witness ==
    \E ci \in Calls : \E a \in Halted(calls[ci]) :
        LET c == calls[ci]
        IN  /\ Finished(c)
            /\ c.handler.found
            /\ c.acts[a].pos = 2
            /\ Len(Deref(c.stack)) = 3
            /\ c.acts[1].fn.kind = "await"
            /\ Outcome(c).v.status = 403

\* C3: the step a next(v) call starts (the middleware at the next position, or the
\* terminal handler after the last) observes locals equal to v exactly: nothing earlier
\* in the chain is merged in.
C3_NextLocalsExact ==
    \A ci \in Calls : \A a \in MdActs(calls[ci]) :
        LET c == calls[ci]
            act == c.acts[a]
        IN  act.child # 0 =>
              /\ c.acts[act.child].ctx.locals = act.out
              /\ act.out = NextLocals(act.fn, act.ctx.locals)
              /\ c.acts[act.child].pos =
                    IF act.pos < Len(Deref(c.stack)) THEN act.pos + 1 ELSE 0
              /\ \A k \in 1..Len(c.log) :
                    (c.log[k].e \in {"pre", "term"} /\ c.log[k].pos = c.acts[act.child].pos
                       /\ c.log[k].id # 0)
                        => c.log[k].ctx.locals = act.out

\* a middleware that was given non-empty locals passed a value without them to next,
\* and the handler it started saw that value alone
C3_Witness ==
    \E ci \in Calls : \E a \in MdActs(calls[ci]) :
        LET c == calls[ci]
            act == c.acts[a]
        IN  /\ act.fn.kind = "set"
            /\ act.ctx.locals # EmptyLocals
            /\ act.child # 0
            /\ c.acts[act.child].pos = 0
            /\ c.acts[act.child].fn.kind = "ok"
            /\ c.acts[act.child].pc = "done"
            /\ c.acts[act.child].ret.v.body = (0 :> act.fn.id)

\* C4: a request that matches no route still runs the middleware of the applicable
\* stack, in order, as far as each calls next; no route handler is invoked; the terminal
\* step returns status 404 with the body { message: "Not found" }.
C4_UnmatchedRuns404 ==
    \A ci \in Calls :
        LET c == calls[ci]
        IN  (~c.failed /\ ~c.handler.found) =>
              /\ c.stack = c.stackHandler.store.stack
              /\ \A a \in MdActs(c) : c.acts[a].fn = Deref(c.stack)[c.acts[a].pos]
              /\ \A a \in TermActs(c) :
                    /\ c.acts[a].fn = NotFoundFn
                    /\ c.acts[a].pc = "done" =>
                          /\ c.acts[a].ret.t = "val"
                          /\ c.acts[a].ret.v.status = 404
                          /\ c.acts[a].ret.v.msg = "Not found"
              /\ (Finished(c) /\ AllCallNext(c)) =>
                    /\ RanThrough(c)
                    /\ Outcome(c).t = "val"
                    /\ Outcome(c).v.status = 404
                    /\ Outcome(c).v.msg = "Not found"

\* a finished request for a path with no route, although a route is registered, through
\* a stack of two middleware at least, ended with the 404
C4_Witness ==
    \E ci \in Calls :
        LET c == calls[ci]
        IN  /\ ~c.failed /\ ~c.handler.found /\ Finished(c) /\ AllCallNext(c)
            /\ DOMAIN routers[1] # {}
            /\ Len(Deref(c.stack)) >= 2
            /\ Len(SelectSeq(c.log, LAMBDA ev : ev.e = "pre")) >= 2
            /\ Outcome(c).v.status = 404

----------------------------------------------------------------------------
(* What routes capture, and what runs for them *)

Ids(stack) == [k \in 1..Len(stack) |-> stack[k].id]

\* the middleware call c has invoked, in invocation order
PreIds(c) == Ids(SelectSeq(c.log, LAMBDA ev : ev.e = "pre"))

\* the terminal steps call c has run
TermEvents(c) == SelectSeq(c.log, LAMBDA ev : ev.e = "term")

\* every registration in a route table
AllStores == UNION { {routers[r][k] : k \in DOMAIN routers[r]} : r \in 1..Len(routers) }

\* call c matched a route and is over
Matched(c) == ~c.failed /\ c.handler.found /\ Finished(c)

\* node n and its ancestors
RECURSIVE Up(_)
Up(n) == IF n = 0 THEN {} ELSE {n} \cup Up(forks[n].parent)

\* the child of ancestor anc on the way down to node n
RECURSIVE Toward(_, _)
Toward(anc, n) == IF forks[n].parent = anc THEN n ELSE Toward(anc, forks[n].parent)

\* how many route calls lie between the root and node n
RECURSIVE Depth(_)
Depth(n) == IF forks[n].parent = 0 THEN 0 ELSE 1 + Depth(forks[n].parent)

\* what the working stack of node n held when n had received t use calls: what its
\* parent's held at the fork, then n's own first t middleware
RECURSIVE StackIdsAt(_, _)
StackIdsAt(n, t) ==
    IF n = 0 THEN <<>>
    ELSE StackIdsAt(forks[n].parent, forks[n].at) \o [k \in 1..t |-> MdId(n, k)]

\* the locals that merging middleware ids leave
Merged(ids) == [id \in {ids[k] : k \in 1..Len(ids)} |-> id]

\* C5: a route holds, and a request it matches runs, exactly the middleware that were
\* in its node's working stack when the route was registered, in order, then its
\* handler: use calls made on the node afterwards change nothing of it, and a route
\* registered after them holds them too.
C5_RouteStackAtRegistration ==
    /\ \A s \in AllStores : Ids(Deref(s.stack)) = StackIdsAt(s.node, s.at)
    /\ \A ci \in Calls :
          Matched(calls[ci]) =>
              LET c == calls[ci]
                  s == c.handler.store
              IN  /\ PreIds(c) = StackIdsAt(s.node, s.at)
                  /\ Len(TermEvents(c)) = 1
                  /\ TermEvents(c)[1].ctx.locals = Merged(StackIdsAt(s.node, s.at))

\* a request ran the one middleware of a route registered before the node's second
\* use, while a route registered after it holds two, and a third use came after both
C5_Witness ==
    \E ci \in Calls : \E s2 \in AllStores :
        LET c == calls[ci]
            s1 == c.handler.store
        IN  /\ Matched(c)
            /\ s1.node = 1 /\ s2.node = 1
            /\ s1.at = 1 /\ s2.at = 2 /\ uses[1] = 3
            /\ PreIds(c) = <<MdId(1, 1)>>
            /\ Len(Deref(s2.stack)) = 2

\* C6: no route holds, and no request a route matches runs, a middleware added with
\* use on a node that is neither the route's node nor one of its ancestors: not one
\* added on a child of the route's node, nor on a sibling.
C6_ChildUseNotAbove ==
    /\ \A s \in AllStores : \A id \in {Deref(s.stack)[k].id : k \in 1..Len(Deref(s.stack))} :
          MdNode(id) \in Up(s.node)
    /\ \A ci \in Calls :
          Matched(calls[ci]) =>
              \A k \in 1..Len(PreIds(calls[ci])) :
                  MdNode(PreIds(calls[ci])[k]) \in Up(calls[ci].handler.store.node)

\* a request that the root's route matches ran the root's middleware while a child has
\* a middleware of its own, and that child's sibling has a route that holds a middleware
C6_Witness ==
    \E ci \in Calls : \E x, y \in Nodes : \E s \in AllStores :
        LET c == calls[ci]
        IN  /\ Matched(c)
            /\ c.handler.store.node = 1
            /\ PreIds(c) # <<>>
            /\ x # y
            /\ forks[x].parent = 1 /\ forks[y].parent = 1
            /\ uses[x] > 0
            /\ s.node = y
            /\ Deref(s.stack) # <<>>

\* C7: a middleware that a parent added with use after it created a child is not in
\* the working stack of that child or of any node below it, and is not run by a
\* request that a route of such a node matches.
C7_ParentUseAfterFork ==
    /\ \A n \in Nodes : \A id \in {StackOf(n)[k].id : k \in 1..Len(StackOf(n))} :
          (MdNode(id) \in Up(n) \ {n}) => MdSeq(id) <= forks[Toward(MdNode(id), n)].at
    /\ \A ci \in Calls :
          Matched(calls[ci]) =>
              LET n == calls[ci].handler.store.node
              IN  \A k \in 1..Len(PreIds(calls[ci])) :
                      LET id == PreIds(calls[ci])[k]
                      IN  (MdNode(id) \in Up(n) \ {n}) =>
                              MdSeq(id) <= forks[Toward(MdNode(id), n)].at

\* the root added a middleware, created a child and added a second one; a request
\* matched by the child's route ran the first
C7_Witness ==
    \E ci \in Calls :
        LET c == calls[ci]
            n == c.handler.store.node
        IN  /\ Matched(c)
            /\ forks[n].parent = 1
            /\ forks[n].at = 1 /\ uses[1] = 2
            /\ MdId(1, 1) \in {PreIds(c)[k] : k \in 1..Len(PreIds(c))}

\* C8: a request that a route matches runs the middleware each ancestor of the route's
\* node had added before the fork that leads to the node, outermost ancestor first,
\* then the node's own middleware added before the route, in order; the locals the
\* handler receives hold what every one of them merged in.
C8_NestedStack ==
    \A ci \in Calls :
        Matched(calls[ci]) =>
            LET c == calls[ci]
                s == c.handler.store
                exp == StackIdsAt(s.node, s.at)
            IN  /\ PreIds(c) = exp
                /\ \A k \in 1..Len(TermEvents(c)) : TermEvents(c)[k].ctx.locals = Merged(exp)
                /\ Outcome(c) = Returned(Response(200, Merged(exp), "", s.handler.id))

\* a request matched by the route of a node two levels below the root ran one
\* middleware of each of the three levels
C8_Witness ==
    \E ci \in Calls :
        LET c == calls[ci]
            n == c.handler.store.node
        IN  /\ Matched(c)
            /\ Depth(n) = 2
            /\ Len(PreIds(c)) = 3
            /\ MdNode(PreIds(c)[1]) = 1
            /\ MdNode(PreIds(c)[2]) = forks[n].parent
            /\ MdNode(PreIds(c)[3]) = n
            /\ DOMAIN TermEvents(c)[1].ctx.locals = {PreIds(c)[k] : k \in 1..3}

\* C9: every node of a tree has the root's route table, so handle called on any node
\* finds for a request the route that the root's table holds for it, whichever node
\* registered it, and runs that route's handler.
C9_SharedRouteTable ==
    /\ \A n \in Nodes : nodes[n].router = nodes[1].router
    /\ \A ci \in Calls :
          Find(routers[nodes[1].router], calls[ci].method, calls[ci].path) = calls[ci].handler
    /\ \A ci \in Calls :
          Matched(calls[ci]) =>
              /\ (Outcome(calls[ci])).t = "val"
              /\ (Outcome(calls[ci])).v.by = calls[ci].handler.store.handler.id

\* handle on the root ran the handler of a route registered two levels below it
C9_Witness ==
    \E ci \in Calls :
        LET c == calls[ci]
            n == c.handler.store.node
        IN  /\ Matched(c)
            /\ c.node = 1
            /\ Depth(n) = 2
            /\ (Outcome(c)).v.status = 200
            /\ (Outcome(c)).v.by = n

\* C10: a request that a route matches runs the stack that route captured, whatever
\* the base-path stack holds; a request that no route matches runs the base-path stack.
C10_EffectiveStack ==
    \A ci \in Calls :
        LET c == calls[ci]
        IN  /\ c.handler.found =>
                /\ c.stack = c.handler.store.stack
                /\ PreIds(c) = Ids(Deref(c.handler.store.stack))
            /\ (~c.handler.found /\ c.stackHandler.found) =>
                /\ c.stack = c.stackHandler.store.stack
                /\ PreIds(c) = Ids(Deref(c.stackHandler.store.stack))
                /\ TermEvents(c)[1].id = NotFoundFn.id
                /\ Outcome(c) = Returned(NotFound)

\* a request that a route matches ran the route's one middleware while the base-path
\* stack that matches it too holds two
C10_Witness ==
    \E ci \in Calls :
        LET c == calls[ci]
        IN  /\ Matched(c)
            /\ c.stackHandler.found
            /\ Len(Deref(c.stackHandler.store.stack)) = 2
            /\ PreIds(c) = <<MdId(1, 1)>>

----------------------------------------------------------------------------
(* Paths, patterns and what the context reports *)

\* the non-empty segments of a path, in order
RECURSIVE Segs(_)
Segs(p) ==
    IF p = <<>> THEN <<>>
    ELSE IF Head(p) = "/" THEN Segs(Tail(p))
    ELSE LET seg == TakeUntil(p, "/") IN <<seg>> \o Segs(Drop(p, Len(seg)))

\* segments joined by "/"
RECURSIVE JoinSegs(_)
JoinSegs(segs) ==
    IF segs = <<>> THEN <<>>
    ELSE IF Len(segs) = 1 THEN segs[1]
    ELSE segs[1] \o <<"/">> \o JoinSegs(Tail(segs))

\* the canonical form of a path: a leading "/", one "/" between segments, none at the
\* end unless the path is the root
Canon(p) == <<"/">> \o JoinSegs(Segs(p))

\* a URL without its scheme, its host and its query string
PathOfUrl(url) ==
    LET slashes == {i \in 1..Len(url) : url[i] = "/"}
        third == CHOOSE i \in slashes : Cardinality({j \in slashes : j <= i}) = 3
        rest == SubSeq(url, third + 1, Len(url))
        marks == {i \in 1..Len(rest) : rest[i] = "?"}
    IN  IF marks = {} THEN rest
        ELSE SubSeq(rest, 1, (CHOOSE i \in marks : \A j \in marks : i <= j) - 1)

\* what the segments ps of a pattern bind on the segments us of a path they match:
\* each :name the segment at its place, a trailing * the segments left, joined by "/"
RECURSIVE SegBindings(_, _)
SegBindings(ps, us) ==
    IF ps = <<>> THEN EmptyMap
    ELSE IF ps = << <<"*">> >> THEN (<<"*">> :> JoinSegs(us))
    ELSE IF Head(ps[1]) = ":" THEN (Tail(ps[1]) :> us[1]) @@ SegBindings(Tail(ps), Tail(us))
    ELSE SegBindings(Tail(ps), Tail(us))

\* the locals the terminal step of call c was handed: what the middleware that called
\* it passed to next, {} when handle called it
LastOut(c) ==
    LET callers == {a \in MdActs(c) : c.acts[a].child \in TermActs(c)}
    IN  IF callers = {} THEN EmptyLocals ELSE c.acts[CHOOSE a \in callers : TRUE].out

\* C11: the handler of the route a request matches is invoked with locals equal to
\* what the last middleware passed to next ({} when the stack is empty), matchedRoute
\* equal to the route's pattern, and parameters equal to what the route's pattern
\* binds on the request path: each :name the path segment at its place, a trailing *
\* the rest of the path; not the parameters of the base-path match.
C11_HandlerContext ==
    \A ci \in Calls : \A a \in TermActs(calls[ci]) :
        LET c == calls[ci]
            s == c.handler.store
        IN  c.handler.found =>
                /\ c.acts[a].fn = s.handler
                /\ c.acts[a].ctx.locals = LastOut(c)
                /\ c.acts[a].ctx.matchedRoute = s.matchingRoute
                /\ c.acts[a].ctx.parameters =
                       SegBindings(Segs(s.matchingRoute), Segs(PathOfUrl(c.url)))

\* the handler of "/:x" got x bound to "b" for a request that the base path "/*" also
\* matches, binding * to "b", and got the locals the last of two middleware passed on
C11_Witness ==
    \E ci \in Calls : \E a \in TermActs(calls[ci]) :
        LET c == calls[ci]
        IN  /\ Matched(c)
            /\ c.acts[a].ctx.parameters = (<<"x">> :> <<"b">>)
            /\ c.ctx.parameters = (<<"*">> :> <<"b">>)
            /\ Len(PreIds(c)) = 2
            /\ c.acts[a].ctx.locals = Merged(PreIds(c))

\* C12: matchedRoute is the pattern as the route was registered, not normalized (the
\* base path of the registering node followed by the path given to the verb method),
\* in the context of every middleware and of the handler of a request the route
\* matches; it is null in the context of every middleware of a request no route matches.
C12_MatchedRoute ==
    \A ci \in Calls : \A a \in 1..Len(calls[ci].acts) :
        LET c == calls[ci]
            s == c.handler.store
        IN  /\ c.handler.found =>
                c.acts[a].ctx.matchedRoute = nodes[s.node].basePath \o s.given
            /\ ~c.handler.found => c.acts[a].ctx.matchedRoute = Null

\* two middleware and the handler of the route "/" of the sub-router mounted at "/a"
\* were given "/a/", which normalization turns into "/a"
C12_Witness ==
    \E ci \in Calls :
        LET c == calls[ci]
        IN  /\ Matched(c)
            /\ Len(c.acts) = 3
            /\ \A a \in 1..3 : c.acts[a].ctx.matchedRoute = <<"/", "a", "/">>
            /\ c.path = <<"/", "a">>

\* C20: a route is registered under the canonical form of its pattern, a request is
\* looked up under the canonical form of its URL without scheme, host and query
\* string, and a request is served by a route exactly when a pattern registered for
\* its method matches that path.
C20_SameNormalization ==
    /\ \A r \in 1..Len(routers) : \A k \in DOMAIN routers[r] :
          k[2] = Canon(nodes[routers[r][k].node].basePath \o routers[r][k].given)
    /\ \A ci \in Calls :
          LET c == calls[ci]
              table == routers[nodes[c.node].router]
              serving == {k \in DOMAIN table :
                             k[1] = c.method /\ MatchPattern(k[2], Canon(PathOfUrl(c.url))).ok}
          IN  /\ c.path = Canon(PathOfUrl(c.url))
              /\ c.handler.found <=> serving # {}
              /\ c.handler.found => \E k \in serving : table[k] = c.handler.store

\* the route "/" of the root served the request for "/?x", while the route "/" of the
\* sub-router mounted at "/a" and the route "b//" of the root are registered
C20_Witness ==
    \E ci \in Calls : \E k1, k2 \in DOMAIN routers[1] :
        LET c == calls[ci]
        IN  /\ Matched(c)
            /\ c.url = UrlQuery
            /\ c.handler.store.matchingRoute = <<"/">>
            /\ k1[2] = <<"/", "a">> /\ routers[1][k1].given = <<"/">>
            /\ k2[2] = <<"/", "b">> /\ routers[1][k2].given = <<"b", "/", "/">>

----------------------------------------------------------------------------
(* Calls side by side *)

\* the invocations of call c that can go on once the call stack is empty
Resumable(c) ==
    {a \in 1..Len(c.acts) :
        \/ c.acts[a].pc \in {"wait", "before"}
        \/ c.acts[a].pc = "await" /\ Awaited(c, c.acts[a].wait).t # "none"}

\* a call that is the only one, run until nothing of it is left to run
RECURSIVE Settle(_)
Settle(cs) ==
    IF Resumable(cs[1]) = {} THEN cs[1]
    ELSE LET a == CHOOSE a \in Resumable(cs[1]) : TRUE
         IN  Settle(CASE cs[1].acts[a].pc = "wait" -> HandlerResumed(cs, 1, a)
                      [] cs[1].acts[a].pc = "before" -> BeforeResumed(cs, 1, a)
                      [] OTHER -> AwaitResumed(cs, 1, a))

\* handle(request) on node n as the only call, from its start to its end
Alone(n, method, url) == Settle(Handled(<<>>, n, method, url))

IsPrefix(s, t) == Len(s) <= Len(t) /\ s = SubSeq(t, 1, Len(s))

\* C13: the first step of every call, the first middleware of the stack or the terminal
\* step when the stack is empty, is given empty locals, whatever other calls were made
\* before it or are suspended.
C13_StartsWithEmptyLocals ==
    \A ci \in Calls :
        LET c == calls[ci]
        IN  c.acts # <<>> =>
                /\ c.acts[1].ctx.locals = EmptyLocals
                /\ c.acts[1].pos = IF Deref(c.stack) = <<>> THEN 0 ELSE 1
                /\ \A k \in 1..Len(c.log) :
                       (c.log[k].pos = c.acts[1].pos /\ c.log[k].e \in {"pre", "term"}) =>
                           c.log[k].ctx.locals = EmptyLocals

\* a call started while an earlier one, which has passed locals on, is suspended
C13_Witness ==
    /\ Len(calls) = 2
    /\ ~Finished(calls[1])
    /\ \E a \in 1..Len(calls[1].acts) : calls[1].acts[a].ctx.locals # EmptyLocals
    /\ calls[2].acts # <<>>
    /\ calls[2].acts[1].pos = 1
    /\ calls[2].acts[1].ctx.locals = EmptyLocals

\* C17: whatever calls run side by side, each call invokes the middleware, hands each
\* step the context and ends with the response that it does when it is the only call:
\* what it has logged and started so far is the beginning of that, and once over it
\* equals it.
C17_CallsIndependent ==
    \A ci \in Calls :
        LET c == calls[ci]
            alone == Alone(c.node, c.method, c.url)
        IN  /\ Cardinality(Resumable(c)) <= 1
            /\ IsPrefix(c.log, alone.log)
            /\ Len(c.acts) <= Len(alone.acts)
            /\ \A a \in 1..Len(c.acts) :
                  /\ c.acts[a].fn = alone.acts[a].fn
                  /\ c.acts[a].pos = alone.acts[a].pos
                  /\ c.acts[a].ctx = alone.acts[a].ctx
            /\ Finished(c) => c = alone

\* a call that ran two middleware and the handler is over while a call started before
\* it is still suspended in its second middleware
C17_Witness ==
    /\ Len(calls) = 2
    /\ ~Finished(calls[1])
    /\ Len(calls[1].acts) >= 2
    /\ Finished(calls[2])
    /\ calls[2].handler.found
    /\ Len(PreIds(calls[2])) = 2
    /\ (Outcome(calls[2])).v.status = 200

----------------------------------------------------------------------------
(* Errors *)

\* the place of invocation a in the chain of call c: its stack position, or one past
\* the stack for the terminal step
PosOf(c, a) == IF c.acts[a].pos = 0 THEN Len(Deref(c.stack)) + 1 ELSE c.acts[a].pos

\* the invocations of call c that have thrown or rejected on their own
Throwers(c) ==
    {a \in 1..Len(c.acts) : c.acts[a].fn.kind \in {"throw", "reject"} /\ c.acts[a].pc = "done"}

\* the error invocation a raises
Raised(c, a) == Error("Boom", c.acts[a].fn.id)

\* functions that are not async: what they throw reaches their caller as a throw
SyncFn(fn) == fn.kind \in SyncKinds \cup TryKinds \cup {"halt", "throw", "ok", "notFound"}

\* the middleware invocations of call c above thrower t that wrap next in a try/catch
Wrapping(c, t) ==
    {a \in MdActs(c) : c.acts[a].fn.kind \in {"catch", "syncCatch"} /\ PosOf(c, a) < PosOf(c, t)}

\* those of them whose try/catch covers the way the error of t reaches them: always
\* when next is awaited inside the try, else only when no async function lies between
\* the middleware and the thrower, the thrower included
Covering(c, t) ==
    {a \in Wrapping(c, t) :
        \/ c.acts[a].fn.kind = "catch"
        \/ \A b \in 1..Len(c.acts) :
              (PosOf(c, a) < PosOf(c, b) /\ PosOf(c, b) <= PosOf(c, t)) => SyncFn(c.acts[b].fn)}

\* the innermost of a non-empty set of invocations
Nearest(c, K) == CHOOSE a \in K : \A b \in K : PosOf(c, b) <= PosOf(c, a)

CatchEvents(c) == SelectSeq(c.log, LAMBDA ev : ev.e = "catch")

\* the error of thrower t went to invocation k and to no other: k alone caught it, and
\* what k returned is what every middleware above k and the caller of handle got
DeliveredTo(c, t, k) ==
    LET resp == Returned(Caught(c.acts[k].fn, Raised(c, t)))
    IN  /\ Len(CatchEvents(c)) = 1
        /\ CatchEvents(c)[1].pos = c.acts[k].pos
        /\ CatchEvents(c)[1].v = Raised(c, t)
        /\ \A b \in MdActs(c) : PosOf(c, b) <= PosOf(c, k) => Yield(c, b) = resp
        /\ Outcome(c) = resp

\* C14 as stated: the error of a handler or middleware that throws or rejects goes to
\* the nearest middleware above it that wraps its next call in a try/catch; what that
\* middleware returns is what every middleware further out and handle get.
C14_AsStated ==
    \A ci \in Calls : \A t \in Throwers(calls[ci]) :
        (Finished(calls[ci]) /\ Wrapping(calls[ci], t) # {}) =>
            DeliveredTo(calls[ci], t, Nearest(calls[ci], Wrapping(calls[ci], t)))

\* C14, amended: the error goes to the nearest middleware above the thrower whose
\* try/catch covers the way the error reaches it: a try/catch around an awaited next
\* catches a throw and a rejection, one around a next that is not awaited catches only
\* an error thrown with no async function between it and the thrower. What that
\* middleware returns is what every middleware further out and handle get, and no
\* middleware further out sees the error.
C14_NearestCoveringCatch ==
    \A ci \in Calls : \A t \in Throwers(calls[ci]) :
        (Finished(calls[ci]) /\ Covering(calls[ci], t) # {}) =>
            DeliveredTo(calls[ci], t, Nearest(calls[ci], Covering(calls[ci], t)))

\* the handler threw below a middleware that awaits next; the try/catch without await
\* above that one did not get the error, the awaiting try/catch at position 1 did
C14_Witness ==
    \E ci \in Calls : \E t \in Throwers(calls[ci]) :
        LET c == calls[ci]
        IN  /\ Finished(c)
            /\ c.acts[t].pos = 0
            /\ Len(Deref(c.stack)) = 3
            /\ c.acts[1].fn.kind = "catch"
            /\ c.acts[2].fn.kind = "syncCatch"
            /\ c.acts[3].fn.kind = "await"
            /\ Nearest(c, Covering(c, t)) = 1
            /\ (Outcome(c)).v.status = 500

\* C15: when a handler or middleware throws or rejects and no middleware catches the
\* error, handle throws or rejects with that very error and no response takes its place.
C15_UncaughtPropagates ==
    \A ci \in Calls : \A t \in Throwers(calls[ci]) :
        LET c == calls[ci]
        IN  (Finished(c) /\ CatchEvents(c) = <<>>) =>
                /\ Outcome(c) = Thrown(Raised(c, t))
                /\ \A b \in MdActs(c) : PosOf(c, b) < PosOf(c, t) => Yield(c, b) = Thrown(Raised(c, t))
                /\ (\A b \in 1..Len(c.acts) : SyncFn(c.acts[b].fn)) => Returns(c) = Thrown(Raised(c, t))

\* a handler's rejection went through three middleware, one of them a try/catch that
\* does not await, and handle rejected with it
C15_Witness ==
    \E ci \in Calls : \E t \in Throwers(calls[ci]) :
        LET c == calls[ci]
        IN  /\ Finished(c)
            /\ c.acts[t].pos = 0 /\ c.acts[t].fn.kind = "reject"
            /\ Len(Deref(c.stack)) = 3
            /\ \E b \in MdActs(c) : c.acts[b].fn.kind = "syncCatch"
            /\ CatchEvents(c) = <<>>
            /\ Returns(c).t = "prom"
            /\ Outcome(c) = Thrown(Raised(c, t))

\* what the next call of invocation a of call c came to: a response or an error, thrown
\* or by rejection; Pending while it is not known
NextCameTo(c, a) ==
    IF c.acts[a].child = 0 THEN Pending ELSE Awaited(c, c.acts[c.acts[a].child].ret)

\* the throwers of call c below invocation a
Deeper(c, a) == {t \in Throwers(c) : PosOf(c, a) < PosOf(c, t)}

\* no middleware between invocation a and thrower t caught the error of t
Uncaught(c, a, t) ==
    \A i \in 1..Len(c.log) : c.log[i].e = "catch" => c.log[i].pos <= PosOf(c, a)

\* handleErrors(h) at invocation a called h once, with its own context and error err,
\* and yielded h's response to the position above it
Recovered(c, a, err) ==
    LET act == c.acts[a]
        caught == SelectSeq(c.log, LAMBDA ev : ev.e = "catch" /\ ev.pos = act.pos)
    IN  /\ Len(caught) = 1
        /\ caught[1].ctx = act.ctx
        /\ caught[1].v = err
        /\ Yield(c, a) = Returned(Caught(act.fn, err))

\* handleErrors(h) at invocation a did not call h and yielded what its next call gave
PassedThrough(c, a) ==
    /\ \A i \in 1..Len(c.log) : c.log[i].e = "catch" => c.log[i].pos # c.acts[a].pos
    /\ NextCameTo(c, a).t = "val"
    /\ Yield(c, a) = NextCameTo(c, a)

\* what the position above invocation a got is what a yielded
SeenAbove(c, a) ==
    (a > 1 /\ c.acts[a - 1].fn.kind \in AwaitKinds /\ c.acts[a - 1].pc = "done") =>
        \/ c.acts[a - 1].settled = Yield(c, a)
        \/ c.acts[a - 1].fn.kind = "catch" /\ Yield(c, a).t = "err"

\* C16 as stated: with handleErrors(h) at position k, any error thrown or rejected at a
\* position below k or by the handler has h called once with handleErrors's own
\* context and that error, and h's response is what position k-1 sees; when nothing
\* below fails h is not called and the response passes through unchanged.
C16_AsStated ==
    \A ci \in Calls : \A a \in MdActs(calls[ci]) :
        LET c == calls[ci]
        IN  (Finished(c) /\ c.acts[a].fn.kind = "catch") =>
                /\ \A t \in Deeper(c, a) : Recovered(c, a, Raised(c, t))
                /\ Deeper(c, a) = {} => PassedThrough(c, a)
                /\ SeenAbove(c, a)

\* C16, amended: with handleErrors(h) at position k, any error thrown or rejected at a
\* position below k or by the handler that no middleware between them catches has h
\* called once with handleErrors's own context and that error, and h's response is what
\* position k-1 sees; when nothing below fails, or a middleware below k catches the
\* error, h is not called and the response passes through unchanged.
C16_HandleErrors ==
    \A ci \in Calls : \A a \in MdActs(calls[ci]) :
        LET c == calls[ci]
        IN  (Finished(c) /\ c.acts[a].fn.kind = "catch") =>
                /\ \A t \in Deeper(c, a) :
                      IF Uncaught(c, a, t)
                      THEN NextCameTo(c, a) = Thrown(Raised(c, t)) /\ Recovered(c, a, Raised(c, t))
                      ELSE PassedThrough(c, a)
                /\ Deeper(c, a) = {} => PassedThrough(c, a)
                /\ SeenAbove(c, a)

\* handleErrors at position 2 of 3 caught the rejection of the handler that came
\* through the middleware below it, and the middleware above it got h's response
C16_Witness ==
    \E ci \in Calls :
        LET c == calls[ci]
        IN  /\ Finished(c)
            /\ Len(c.acts) = 4
            /\ c.acts[1].fn.kind = "await"
            /\ c.acts[2].fn.kind = "catch"
            /\ c.acts[3].fn.kind = "pass"
            /\ c.acts[4].fn.kind = "reject"
            /\ c.acts[1].settled = Returned(Caught(c.acts[2].fn, Raised(c, 4)))

----------------------------------------------------------------------------
(* A request no lookup has a stack for *)

\* C19: when neither the route lookup nor the base-path lookup yields a stack, handle
\* fails with the error "No stack handler found": it does not return the 404 response
\* and it runs no middleware and no handler.
C19_NoStackIsFatal ==
    \A ci \in Calls :
        LET c == calls[ci]
        IN  /\ c.failed <=> (~c.handler.found /\ ~c.stackHandler.found)
            /\ c.failed =>
                  /\ Returns(c) = Thrown(Error("No stack handler found", 0))
                  /\ Outcome(c) = Returns(c)
                  /\ c.acts = <<>>
                  /\ c.log = <<>>
            /\ (~c.failed /\ Finished(c)) => Outcome(c).t = "val"

\* a request outside the base path of a router that has middleware and a route failed
C19_Witness ==
    \E ci \in Calls :
        /\ calls[ci].failed
        /\ calls[ci].path = <<"/", "b">>
        /\ Len(StackOf(1)) >= 2
        /\ routers[1] # EmptyTable

----------------------------------------------------------------------------
(* Registering a route again *)

\* every route table holds, under each method and normalized path, what the last verb
\* call for them stored
TableIsLatest ==
    \A r \in 1..Len(routers) : \A k \in DOMAIN latest[r] :
        k \in DOMAIN routers[r] /\ routers[r][k] = latest[r][k]

\* call c, just made, went to the last registration for its method and path: that
\* registration's handler ran, below that registration's captured stack
ServedByLatest(c, reg) ==
    LET key == <<c.method, c.path>>
    IN  key \in DOMAIN reg =>
            /\ c.handler.found
            /\ c.handler.store = reg[key]
            /\ c.stack = reg[key].stack
            /\ \A a \in TermActs(c) : c.acts[a].fn = reg[key].handler
            /\ TermActs(c) # {}
            /\ \A a \in MdActs(c) : c.acts[a].fn = Deref(reg[key].stack)[c.acts[a].pos]

\* C18: a second registration with the same method and the same normalized path
\* replaces the first: from then on every matching request runs the later
\* registration's handler with the later registration's captured stack, and never the
\* earlier handler.
C18_LastRegistrationWins ==
    [][ /\ TableIsLatest'
        /\ Len(calls') > Len(calls) =>
              ServedByLatest(calls'[Len(calls')], latest'[nodes[calls'[Len(calls')].node].router])
      ]_vars

\* two requests for /a with a registration of /a/ between them: the first ran the
\* first handler below an empty stack, the second the other handler below the stack
\* of the later registration
C18_Witness ==
    /\ Len(calls) = 2
    /\ calls[1].path = <<"/", "a">> /\ calls[2].path = <<"/", "a">>
    /\ calls[1].method = "GET" /\ calls[2].method = "GET"
    /\ calls[1].handler.found /\ calls[2].handler.found
    /\ calls[1].handler.store.handler.kind = "ok"
    /\ calls[1].handler.store.given = <<"/", "a">>
    /\ calls[1].handler.store.at = 0
    /\ calls[2].handler.store.handler.kind = "throw"
    /\ calls[2].handler.store.given = <<"/", "a", "/">>
    /\ calls[2].handler.store.at = 2
    /\ calls[2].handler.store = latest[1][<<"GET", <<"/", "a">>>>]
    /\ Len(calls[2].acts) = 3

----------------------------------------------------------------------------
(* Sub-routers mounted at paths with parameters *)

\* the mount paths of the ancestors of node n and of n itself, outermost first, as one
\* path
RECURSIVE MountChain(_)
MountChain(n) == IF forks[n].parent = 0 THEN <<>> ELSE MountChain(forks[n].parent) \o forks[n].path

\* the places of the :name segments among the segments ps of a pattern
ParamPlaces(ps) == {i \in 1..Len(ps) : Head(ps[i]) = ":"}

\* parameters binds the name of every :name segment of pattern to the segment of path
\* at the same place
BindsAll(parameters, pattern, path) ==
    \A i \in ParamPlaces(Segs(pattern)) :
        /\ Tail(Segs(pattern)[i]) \in DOMAIN parameters
        /\ i <= Len(Segs(path))
        /\ parameters[Tail(Segs(pattern)[i])] = Segs(path)[i]

\* C21: a route registered inside nested sub-routers is keyed by the mount paths of all
\* its ancestors followed by its own path, and the handler of a request that matches it
\* gets parameters that bind every :name segment of every level to the request path
\* segment at its place.
C21_NestedRouteKey ==
    /\ \A r \in 1..Len(routers) : \A k \in DOMAIN routers[r] :
          LET s == routers[r][k]
          IN  /\ s.matchingRoute = MountChain(s.node) \o s.given
              /\ k[2] = Canon(MountChain(s.node) \o s.given)
    /\ \A ci \in Calls : \A a \in TermActs(calls[ci]) :
          LET c == calls[ci]
              s == c.handler.store
          IN  c.handler.found =>
                  /\ MatchPattern(Canon(MountChain(s.node) \o s.given), c.path).ok
                  /\ BindsAll(c.acts[a].ctx.parameters, MountChain(s.node) \o s.given, c.path)

\* the handler of the route "/:z" of the sub-router mounted at "/:y" inside the one
\* mounted at "/:x" served "/a/a/b" with x and y bound to "a" and z to "b"
C21_Witness ==
    \E ci \in Calls : \E a \in TermActs(calls[ci]) :
        LET c == calls[ci]
        IN  /\ c.handler.found
            /\ c.path = <<"/", "a", "/", "a", "/", "b">>
            /\ Depth(c.handler.store.node) = 2
            /\ c.handler.store.matchingRoute = <<"/", ":", "x", "/", ":", "y", "/", ":", "z">>
            /\ c.acts[a].ctx.parameters =
                   (<<"x">> :> <<"a">>) @@ (<<"y">> :> <<"a">>) @@ (<<"z">> :> <<"b">>)

\* C22 as stated: for any request served by a route of a sub-router whose base path
\* has :name segments, every middleware added on that sub-router gets parameters that
\* bind each such name to the request path segment at its place, whatever else is
\* registered in the tree.
C22_AsStated ==
    \A ci \in Calls : \A a \in MdActs(calls[ci]) :
        LET c == calls[ci]
            n == c.handler.store.node
        IN  (c.handler.found /\ MdNode(c.acts[a].fn.id) = n) =>
                BindsAll(c.acts[a].ctx.parameters, nodes[n].basePath, c.path)

----------------------------------------------------------------------------
(* What stays the same along the chain *)

\* C23: within one handle call every middleware invocation gets the same request,
\* matchedRoute and parameters, those fixed when handle did its lookups; what a
\* middleware passes to next becomes the locals of the middleware below it and changes
\* none of the three.
C23_ContextFixed ==
    \A ci \in Calls : \A a \in MdActs(calls[ci]) :
        LET c == calls[ci]
            act == c.acts[a]
        IN  /\ act.ctx.request = [method |-> c.method, url |-> c.url]
            /\ act.ctx.matchedRoute =
                   IF c.handler.found THEN c.handler.store.matchingRoute ELSE Null
            /\ act.ctx.parameters =
                   IF c.stackHandler.found THEN c.stackHandler.params ELSE EmptyMap
            /\ (act.child \in MdActs(c)) =>
                   c.acts[act.child].ctx = [act.ctx EXCEPT !.locals = act.out]

\* three middleware of a request served by the route "/:x" each got other locals and
\* the same request, pattern and base-path parameters
C23_Witness ==
    \E ci \in Calls :
        LET c == calls[ci]
        IN  /\ Matched(c)
            /\ Len(c.acts) = 4
            /\ c.ctx.parameters = (<<"*">> :> <<"a">>)
            /\ c.ctx.matchedRoute = <<"/", ":", "x">>
            /\ \A a \in 1..3 : c.acts[a].pos = a /\ c.acts[a].ctx.parameters = c.ctx.parameters
            /\ c.acts[1].ctx.locals # c.acts[2].ctx.locals
            /\ c.acts[2].ctx.locals # c.acts[3].ctx.locals

----------------------------------------------------------------------------
(* createMiddleware *)

\* the invocations that the next calls of invocation a of call c started
NextCallsOf(c, a) == {b \in 1..Len(c.acts) : PosOf(c, b) = PosOf(c, a) + 1}

\* locals overlaid with the keys of o, the keys of o winning
Overlaid(locals, o) ==
    [k \in DOMAIN locals \cup DOMAIN o |-> IF k \in DOMAIN o THEN o[k] ELSE locals[k]]

\* invocation a of call c, a createMiddleware middleware, called next exactly once, with
\* the locals it received overlaid with what before returned
CalledNextOnce(c, a) ==
    LET act == c.acts[a]
    IN  /\ Cardinality(NextCallsOf(c, a)) = 1
        /\ act.child \in NextCallsOf(c, a)
        /\ c.acts[act.child].ctx.locals = Overlaid(act.ctx.locals, BeforeReturn(act.fn))
        /\ act.out = c.acts[act.child].ctx.locals
        /\ BeforeReturn(act.fn) = EmptyLocals => c.acts[act.child].ctx.locals = act.ctx.locals

\* the createMiddleware invocations of call c that are over
CreatedDone(c) ==
    {a \in MdActs(c) : c.acts[a].fn.kind \in CreatedKinds /\ c.acts[a].pc = "done"}

AfterAt(c, pos) == {i \in 1..Len(c.log) : c.log[i].e = "after" /\ c.log[i].pos = pos}

\* C25: when the chain below it completes normally, the after callback of
\* createMiddleware(before, after) is invoked exactly once in the handle call: once
\* every deeper middleware and the terminal step have run and the response is there,
\* and before a wrapper above it, which awaits its result, runs its own after; it receives
\* that response and the wrapper's context with the merged locals the wrapper passed
\* to next, and the wrapper returns the response unchanged. Until then after is not
\* invoked.
C25_AfterOnce ==
    \A ci \in Calls : \A a \in MdActs(calls[ci]) :
        LET c == calls[ci]
            act == c.acts[a]
            resp == NextCameTo(c, a)
        IN  act.fn.kind = "cmAfter" =>
                /\ act.pc # "done" => AfterAt(c, act.pos) = {}
                /\ (act.pc = "done" /\ resp.t = "val") =>
                      /\ Cardinality(AfterAt(c, act.pos)) = 1
                      /\ \A i \in AfterAt(c, act.pos) :
                            /\ c.log[i].v = resp.v
                            /\ c.log[i].ctx = [act.ctx EXCEPT !.locals = c.acts[act.child].ctx.locals]
                            /\ c.log[i].ctx.locals = Overlaid(act.ctx.locals, BeforeReturn(act.fn))
                            /\ \A j \in 1..Len(c.log) :
                                  (c.log[j].pos = 0 \/ c.log[j].pos > act.pos) => j < i
                            /\ \A j \in 1..Len(c.log) :
                                  (c.log[j].pos > 0 /\ c.log[j].pos < act.pos
                                     /\ c.log[j].e = "after") => i < j
                      /\ Yield(c, a) = resp

\* the after of the first of two createMiddleware middleware ran once, last, with the
\* response of the async handler and the locals the first one passed on
C25_Witness ==
    \E ci \in Calls :
        LET c == calls[ci]
        IN  /\ Finished(c)
            /\ Len(c.acts) = 3
            /\ c.acts[1].fn.kind = "cmAfter"
            /\ c.acts[2].fn.kind = "cmAfter"
            /\ c.acts[3].fn.kind = "async"
            /\ AfterAt(c, 1) = {Len(c.log)}
            /\ AfterAt(c, 2) = {Len(c.log) - 1}
            /\ c.log[Len(c.log)].ctx.locals = (c.acts[1].fn.id :> c.acts[1].fn.id)
            /\ c.log[Len(c.log)].v = Outcome(c).v
            /\ Outcome(c).v.status = 200

----------------------------------------------------------------------------
(* What use changes *)

\* C26: use(md) on a node appends one entry, md, at the end of that node's stack and
\* makes no new node; it changes neither the route table, nor the captured stack of any
\* route registered before, nor the stack of any other node.
C26_UseAppendsOne ==
    [][ \A n \in Nodes :
          (Len(uses') = Len(uses) /\ uses'[n] = uses[n] + 1) =>
              LET a == nodes[n].stack
              IN  /\ Len(heap'[a]) = Len(heap[a]) + 1
                  /\ SubSeq(heap'[a], 1, Len(heap[a])) = heap[a]
                  /\ heap'[a][Len(heap'[a])].id = MdId(n, uses'[n])
                  /\ nodes' = nodes
                  /\ Len(heap') = Len(heap)
                  /\ routers' = routers
                  /\ \A r \in 1..Len(routers) : \A k \in DOMAIN routers[r] :
                        Deref(routers[r][k].stack)' = Deref(routers[r][k].stack)
                  /\ \A m \in Nodes \ {n} :
                        nodes[m].stack # a /\ heap'[nodes[m].stack] = heap[nodes[m].stack]
      ]_vars

\* a sub-router received a second middleware after one of its routes was registered
\* with the first, while the root has one of its own
C26_Witness ==
    \E n \in Nodes : \E r \in 1..Len(routers) : \E k \in DOMAIN routers[r] :
        /\ n > 1
        /\ Len(StackOf(1)) = 1
        /\ uses[n] = 2
        /\ routers[r][k].node = n
        /\ routers[r][k].at = 1
        /\ Len(Deref(routers[r][k].stack)) < Len(StackOf(n))

----------------------------------------------------------------------------
(* Plain values and awaitables *)

\* the invocations of call c that returned an awaitable
Awaitables(c) == {a \in 1..Len(c.acts) : c.acts[a].ret.t = "prom"}

\* when everything call c invoked returned its response synchronously, handle
\* returned that response as a plain value and nothing of the call is left to run
SyncStaysSync(c) ==
    Awaitables(c) = {} => (Returns(c).t = "val" /\ Returns(c).v.kind = "resp" /\ Finished(c))

\* handle returned an awaitable, which resolves to a response
ReturnsAwaitable(c) ==
    /\ Returns(c).t = "prom"
    /\ Finished(c) => (Outcome(c).t = "val" /\ Outcome(c).v.kind = "resp")

\* every middleware of call c above invocation a returns the result of its next call
\* or awaits it
PassedUp(c, a) ==
    \A b \in MdActs(c) : PosOf(c, b) < PosOf(c, a) => c.acts[b].fn.kind \notin DetachKinds

\* C27 as stated: if every middleware and the terminal step return their response
\* synchronously, handle returns that response synchronously as a plain value, with no
\* suspension; if any of them returns an awaitable, handle returns an awaitable that
\* resolves to the final response.
C27_AsStated ==
    \A ci \in Calls :
        /\ SyncStaysSync(calls[ci])
        /\ Awaitables(calls[ci]) # {} => ReturnsAwaitable(calls[ci])

\* C27, amended: if every middleware and the terminal step return their response
\* synchronously, handle returns that response synchronously as a plain value, with no
\* suspension; if any of them returns an awaitable and every middleware above it
\* returns or awaits the result of its next call, handle returns an awaitable that
\* resolves to the final response.
C27_SyncOrAwaitable ==
    \A ci \in Calls :
        /\ SyncStaysSync(calls[ci])
        /\ \A a \in Awaitables(calls[ci]) :
              PassedUp(calls[ci], a) => ReturnsAwaitable(calls[ci])

\* a middleware that does not await, above one that does and a sync handler: handle
\* returned the promise of the second, which resolved to the handler's response
C27_Witness ==
    \E ci \in Calls :
        LET c == calls[ci]
        IN  /\ Finished(c)
            /\ Len(c.acts) = 3
            /\ c.acts[1].fn.kind = "pass"
            /\ c.acts[2].fn.kind = "await"
            /\ c.acts[3].fn.kind = "ok"
            /\ Awaitables(c) = {1, 2}
            /\ Returns(c) = PromiseOf(2)
            /\ Outcome(c) = c.acts[3].ret

----------------------------------------------------------------------------
(* Lookups and the first middleware *)

\* the middleware that ran in call c are those of stack, in its order
RanStack(c, stack) == PreIds(c) = Ids(Deref(stack))

----------------------------------------------------------------------------
(* The stack of a request no route matches *)

\* node n's base path is the path or a prefix of it, segment by segment, a :name
\* segment standing for any segment
Beneath(n, path) ==
    LET bs == Segs(nodes[n].basePath)
        ps == Segs(path)
    IN  /\ Len(bs) <= Len(ps)
        /\ \A i \in 1..Len(bs) : bs[i] = ps[i] \/ Head(bs[i]) = ":"

\* the nodes with the most specific base path that path is at or beneath; the root
\* when path is beneath no sub-router's base path
MostSpecific(path) ==
    {n \in Nodes : Beneath(n, path) /\
        \A m \in Nodes : Beneath(m, path) => Len(Segs(nodes[m].basePath)) <= Len(Segs(nodes[n].basePath))}

\* C29 as stated: for a request no route matches whose normalized path is a
\* sub-router's base path or beneath it, the middleware that runs is the stack of the
\* sub-router with the most specific such base path (what it inherited and its own);
\* beneath no sub-router's base path, only the root's stack runs.
C29_AsStated ==
    \A ci \in Calls :
        LET c == calls[ci]
        IN  (~c.failed /\ ~c.handler.found) =>
                \E n \in MostSpecific(c.path) : PreIds(c) = Ids(StackOf(n))

\* the middleware node n received by use so far, in order
OwnIds(n) == [k \in 1..uses[n] |-> MdId(n, k)]

\* sequence s ends with sequence t
EndsWith(s, t) == Len(t) <= Len(s) /\ SubSeq(s, Len(s) - Len(t) + 1, Len(s)) = t

\* C30: a request no route matches runs the working stack of the node whose base-path
\* registration matched it, as that stack is when handle is called: every middleware
\* the node received by use before the call, those added after its routes were
\* registered too; a request a route matches runs the stack as it was when the route
\* was registered and none of the middleware added since.
C30_LiveBaseStack ==
    \A ci \in Calls :
        LET c == calls[ci]
        IN  ~c.failed =>
                /\ ~c.handler.found =>
                      \E n \in Nodes :
                          /\ Beneath(n, c.path)
                          /\ c.stackHandler.store.stack = Shared(nodes[n].stack)
                          /\ PreIds(c) = Ids(StackOf(n))
                          /\ EndsWith(PreIds(c), OwnIds(n))
                /\ c.handler.found =>
                      LET s == c.handler.store
                      IN  /\ PreIds(c) = Ids(Deref(s.stack))
                          /\ EndsWith(PreIds(c), SubSeq(OwnIds(s.node), 1, s.at))
                          /\ \A k \in (s.at + 1)..uses[s.node] :
                                \A i \in 1..Len(PreIds(c)) : PreIds(c)[i] # MdId(s.node, k)

\* a request below the base path of a sub-router matched no route and ran both of the
\* sub-router's middleware, one of them added after the sub-router's route was
\* registered
C30_Witness ==
    \E ci \in Calls : \E n \in Nodes : \E k \in DOMAIN routers[1] :
        LET c == calls[ci]
        IN  /\ n > 1
            /\ ~c.failed /\ ~c.handler.found
            /\ c.stackHandler.store.stack = Shared(nodes[n].stack)
            /\ routers[1][k].node = n
            /\ routers[1][k].at = 1
            /\ uses[n] = 2
            /\ EndsWith(PreIds(c), <<MdId(n, 1), MdId(n, 2)>>)

----------------------------------------------------------------------------
(* A stack for every request *)

\* the keys of the root's two base-path registrations
RootKeys == {<<"GET", <<"/">>>>, <<"GET", <<"/", "*">>>>}

\* the path handle looks up for every request of the model
AnyPath == {requestPath(u) : u \in PathUrls \cup MountUrls \cup ParamUrls}

\* C31: in every state reachable from createRouter() by use, verb-method and route
\* calls, handle on any node finds a stack for every request: the root's base-path
\* registration matches every normalized path, so no call fails with "No stack handler
\* found".
C31_StackAlwaysFound ==
    /\ \A ci \in Calls :
          /\ ~calls[ci].failed
          /\ calls[ci].stackHandler.found
          /\ calls[ci].stack # NoStack
          /\ Returns(calls[ci]) # Thrown(Error("No stack handler found", 0))
    /\ \A n \in Nodes : nodes[n].stackRouter = 1
    /\ RootKeys \subseteq DOMAIN stackRouters[1]
    /\ \A path \in AnyPath : \E k \in RootKeys : MatchPattern(k[2], path).ok

\* a sub-router mounted at /a/a handled a request for a path outside its base path that
\* no route matches, and ran the root's stack
C31_Witness ==
    \E ci \in Calls :
        LET c == calls[ci]
        IN  /\ c.node > 1
            /\ nodes[c.node].basePath = <<"/", "a", "/", "a">>
            /\ c.path = <<"/", "a">>
            /\ ~c.handler.found
            /\ ~c.failed
            /\ Finished(c)
            /\ Outcome(c).v.status = 404

----------------------------------------------------------------------------
(* One array per node *)

\* C32: no two distinct router nodes, siblings or ancestor and descendant, hold the
\* same mutable stack array: every node's array is one of its own, and its length is
\* what the node was handed when it was made plus the use calls the node itself
\* received, so appending to one node's stack changes the length of no other's.
C32_StacksNotShared ==
    /\ \A n, m \in Nodes : n # m => nodes[n].stack # nodes[m].stack
    /\ \A n \in Nodes :
          /\ nodes[n].stack \in 1..Len(heap)
          /\ Len(StackOf(n)) = Len(StackIdsAt(forks[n].parent, forks[n].at)) + uses[n]
          /\ \A k \in 1..Len(StackOf(n)) :
                MdNode(StackOf(n)[k].id) = n <=> k > Len(StackOf(n)) - uses[n]

\* a root, its child and that child's child, each of which received a use call of its
\* own after the node below it was made: three stacks of one middleware each
C32_Witness ==
    \E x, y \in Nodes :
        /\ forks[x].parent = 1 /\ forks[y].parent = x
        /\ forks[x].at = 0 /\ forks[y].at = 0
        /\ uses[1] = 1 /\ uses[x] = 1 /\ uses[y] = 1
        /\ Len(StackOf(1)) = 1 /\ Len(StackOf(x)) = 1 /\ Len(StackOf(y)) = 1

----------------------------------------------------------------------------
(* The cursor *)

\* how many middleware call c had invoked before it started invocation b
StartedBefore(c, b) == Cardinality({a \in MdActs(c) : a < b})

\* the cursor of call c is within the stack, the middleware invoked are those of the
\* positions up to the cursor, one invocation and one start each, and every next call
\* started the middleware at the cursor, or the terminal step when the cursor was at
\* the end
CursorOk(c) ==
    LET stack == Deref(c.stack)
    IN  /\ 0 <= c.i /\ c.i <= Len(stack)
        /\ {c.acts[a].pos : a \in MdActs(c)} = 1..c.i
        /\ \A a, b \in MdActs(c) : c.acts[a].pos = c.acts[b].pos => a = b
        /\ \A k \in 1..Len(stack) :
              Cardinality({j \in 1..Len(c.log) : c.log[j].e = "pre" /\ c.log[j].pos = k}) <= 1
        /\ \A b \in 1..Len(c.acts) :
              /\ c.acts[b].pos = IF StartedBefore(c, b) >= Len(stack) THEN 0
                                 ELSE StartedBefore(c, b) + 1
              /\ c.acts[b].pos > 0 => c.acts[b].fn = stack[c.acts[b].pos]
              /\ c.acts[b].pos = 0 =>
                    c.acts[b].fn = IF c.handler.found THEN c.handler.store.handler
                                   ELSE NotFoundFn

CursorsOk == \A ci \in Calls : ~calls[ci].failed => CursorOk(calls[ci])

\* C33: within one handle call the cursor i satisfies 0 <= i <= stack.length and never
\* decreases; each position of the effective stack is invoked at most once per call,
\* even if a middleware calls next several times; and a next call made once the
\* cursor has reached the end invokes the terminal step (handler or 404) again.
C33_Cursor ==
    [][/\ CursorsOk'
       /\ \A ci \in Calls : ci <= Len(calls') => calls'[ci].i >= calls[ci].i]_vars

\* a finished call through a middleware that calls next twice, above one that calls it
\* once, ran the second once and the matched route's handler twice
C33_Witness ==
    \E ci \in Calls :
        LET c == calls[ci]
        IN  /\ Finished(c)
            /\ c.handler.found
            /\ Len(Deref(c.stack)) = 2
            /\ Deref(c.stack)[1].kind = "twice"
            /\ Deref(c.stack)[2].kind \in {"pass", "await"}
            /\ c.i = 2
            /\ Cardinality(MdActs(c)) = 2
            /\ Cardinality(TermActs(c)) = 2
            /\ Len(TermEvents(c)) = 2

----------------------------------------------------------------------------
(* Routes of another method *)

\* the routes of the table of call c's node whose pattern matches the path of c
PathRoutes(c) ==
    {k \in DOMAIN routers[nodes[c.node].router] : MatchPattern(k[2], c.path).ok}

\* the path of call c matches a registered route, but none registered for its method
OtherMethodOnly(c) ==
    /\ PathRoutes(c) # {}
    /\ \A k \in PathRoutes(c) : k[1] # c.method

\* C34: a request whose normalized path matches a registered route pattern only under
\* another HTTP method is treated as unmatched: no such route's handler or captured
\* stack is used, the base-path stack, which is looked up whatever the request's
\* method is, runs, and the terminal step returns the 404 response.
C34_OtherMethodUnmatched ==
    \A ci \in Calls :
        LET c == calls[ci]
            base == Find(stackRouters[nodes[c.node].stackRouter], "GET", c.path)
        IN  OtherMethodOnly(c) =>
              /\ ~c.handler.found
              /\ ~c.failed
              /\ c.ctx.matchedRoute = Null
              /\ c.stackHandler = base
              /\ c.stack = base.store.stack
              /\ PreIds(c) = Ids(Deref(base.store.stack))
              /\ \A a \in TermActs(c) : c.acts[a].fn = NotFoundFn
              /\ Len(TermEvents(c)) = 1
              /\ Outcome(c) = Returned(NotFound)

\* a POST request for /a, where the sub-router has a GET route holding one middleware,
\* ran the two middleware of the sub-router's working stack and ended with the 404
C34_Witness ==
    \E ci \in Calls : \E k \in PathRoutes(calls[ci]) :
        LET c == calls[ci]
            s == routers[nodes[c.node].router][k]
        IN  /\ OtherMethodOnly(c)
            /\ c.method = "POST" /\ k[1] = "GET"
            /\ c.path = <<"/", "a">>
            /\ s.node = 2
            /\ Len(Deref(s.stack)) = 1
            /\ Len(PreIds(c)) = 2
            /\ Finished(c)
            /\ Outcome(c).v.status = 404

----------------------------------------------------------------------------
(* One request, one outcome *)

\* call c has run the terminal step once at most, and if it is over it ended with a
\* response or with an error
OneOutcome(c) ==
    /\ Cardinality(TermActs(c)) <= 1
    /\ Len(TermEvents(c)) <= 1
    /\ Finished(c) =>
          \/ Outcome(c).t = "val" /\ Outcome(c).v.kind = "resp"
          \/ Outcome(c).t = "err" /\ Outcome(c).v.kind = "error"

\* the outcome of a call, once known, stays what it is
OutcomeKept ==
    \A ci \in Calls :
        (ci <= Len(calls') /\ Outcome(calls[ci]).t # "none") =>
            Outcome(calls'[ci]) = Outcome(calls[ci])

\* C35: when every middleware and the handler terminate and every middleware returns
\* its own response or calls next at most once and returns or awaits its result,
\* every handle call eventually completes, with exactly one outcome (one response or
\* one propagated error), and invokes the terminal step at most once.
C35_CompletesOnce ==
    /\ [](\A ci \in Calls : OneOutcome(calls[ci]))
    /\ [][OutcomeKept]_vars
    /\ \A ci \in 1..MaxCalls :
          (Len(calls) >= ci) ~> (Len(calls) >= ci /\ Finished(calls[ci]))

\* a call that went through a createMiddleware middleware and one that awaits next
\* down to a handler that rejects is over, with the handler's error; it ran the
\* handler once
C35_Witness ==
    \E ci \in Calls :
        LET c == calls[ci]
        IN  /\ Finished(c)
            /\ c.handler.found
            /\ c.handler.store.handler.kind = "reject"
            /\ Len(Deref(c.stack)) = 2
            /\ Deref(c.stack)[1].kind = "cmAfter"
            /\ Deref(c.stack)[2].kind = "await"
            /\ Cardinality(TermActs(c)) = 1
            /\ Outcome(c) = Thrown(Error("Boom", c.handler.store.handler.id))

----------------------------------------------------------------------------
(* What handle leaves alone *)

\* what use, the verb methods and route have built
Built == <<heap, nodes, routers, stackRouters, uses, forks>>

\* C36: handle only reads what the builder methods built: no step of a handle call,
\* however the call ends (a handler's response, the 404, a middleware's own response
\* or an error), changes a node's stack, a registered route or its captured stack, or
\* a base-path registration.
C36_HandleReadOnly == [][calls' # calls => Built' = Built]_vars

\* with three middleware and a route registered, a request that the route matches went
\* through all three and ended with the handler's error; the stack, the route and the
\* base-path registration are what they were
C36_Witness ==
    \E ci \in Calls :
        /\ Finished(calls[ci])
        /\ calls[ci].handler.found
        /\ Outcome(calls[ci]).t = "err"
        /\ Len(PreIds(calls[ci])) = 3
        /\ Len(StackOf(1)) = 3
        /\ Ids(StackOf(1)) = StackIdsAt(1, 3)
        /\ \E s \in AllStores : Ids(Deref(s.stack)) = StackIdsAt(1, 3)
        /\ Deref(stackRouters[1][<<"GET", <<"/", "*">>>>].stack) = StackOf(1)

----------------------------------------------------------------------------
(* use while a request is suspended *)

\* C37: a use call made on a router node while a handle call for a matched route is
\* suspended mid-chain does not change the sequence of middleware that call still
\* executes: the call goes through the route's snapshot of registration time, not
\* through the node's working stack.
C37_InFlightSnapshot ==
    \A ci \in Calls :
        LET c == calls[ci]
            s == c.handler.store
        IN  (~c.failed /\ c.handler.found) =>
              /\ IsPrefix(PreIds(c), StackIdsAt(s.node, s.at))
              /\ \A a \in MdActs(c) : c.acts[a].fn = Deref(s.stack)[c.acts[a].pos]
              /\ TermActs(c) # {} => PreIds(c) = StackIdsAt(s.node, s.at)
              /\ Finished(c) =>
                    /\ PreIds(c) = StackIdsAt(s.node, s.at)
                    /\ Len(TermEvents(c)) = 1

\* a request matched by a route that holds two middleware was suspended in the first;
\* use was called meanwhile; the request then ran the second and the handler, and not
\* the new middleware of the working stack
C37_Witness ==
    \E ci \in Calls :
        LET c == calls[ci]
        IN  /\ Finished(c)
            /\ c.handler.found
            /\ c.handler.store.at = 2
            /\ c.at = 2
            /\ uses[1] = 3
            /\ Len(StackOf(1)) = 3
            /\ Deref(c.stack)[1].kind = "cm"
            /\ PreIds(c) = <<MdId(1, 1), MdId(1, 2)>>
            /\ Outcome(c).v.status = 200

----------------------------------------------------------------------------
(* createMiddleware and errors *)

\* the invocations of call c that are createMiddleware wrappers with an after callback
Wrappers(c) == {a \in MdActs(c) : c.acts[a].fn.kind \in AfterKinds}

\* what the next call of invocation a of call c came to, Pending while it is not known
\* or when a made no next call
BelowCameTo(c, a) ==
    IF c.acts[a].child = 0 THEN Pending ELSE Awaited(c, NextResult(c, c.acts[a].child))

\* C38: when the chain below a createMiddleware(before, after) wrapper throws or
\* rejects, after is not invoked in that handle call and the error comes out of the
\* wrapper unchanged; when before throws, neither next nor after is invoked.
C38_AfterSkippedOnError ==
    \A ci \in Calls : \A a \in Wrappers(calls[ci]) :
        LET c == calls[ci]
            act == c.acts[a]
        IN  /\ BelowCameTo(c, a).t = "err" =>
                /\ AfterAt(c, act.pos) = {}
                /\ act.pc = "done" => act.settled = BelowCameTo(c, a)
                /\ act.pc = "done" => Yield(c, a) = Thrown(BelowCameTo(c, a).v)
            /\ (act.fn.kind \in BeforeThrowKinds /\ act.pc = "done") =>
                /\ act.child = 0
                /\ NextCallsOf(c, a) = {}
                /\ c.i = act.pos
                /\ TermActs(c) = {}
                /\ AfterAt(c, act.pos) = {}
                /\ Yield(c, a) = Thrown(Error("Boom", act.fn.id))
            /\ AfterAt(c, act.pos) # {} => BelowCameTo(c, a).t = "val"

\* a finished call in which a wrapper with an after callback, above another one, got
\* the rejection of the handler: neither after ran, and the call ended with the
\* handler's error
C38_Witness ==
    \E ci \in Calls :
        LET c == calls[ci]
        IN  /\ Finished(c)
            /\ c.handler.found
            /\ c.handler.store.handler.kind = "reject"
            /\ Len(Deref(c.stack)) = 2
            /\ \A k \in 1..2 : Deref(c.stack)[k].kind = "cmAfter"
            /\ Cardinality(Wrappers(c)) = 2
            /\ \A a \in Wrappers(c) : BelowCameTo(c, a).t = "err"
            /\ Outcome(c) = Thrown(Error("Boom", c.handler.store.handler.id))

\* a finished call in which the before of a wrapper with an after callback threw, below
\* another wrapper: the call ended with that error
C38_WitnessBefore ==
    \E ci \in Calls :
        LET c == calls[ci]
        IN  /\ Finished(c)
            /\ Len(Deref(c.stack)) = 3
            /\ Deref(c.stack)[1].kind = "cmAfter"
            /\ Deref(c.stack)[2].kind = "cmThrowAfter"
            /\ Outcome(c) = Thrown(Error("Boom", Deref(c.stack)[2].id))

====
